---------------------------- MODULE Spec2Model ----------------------------
(***************************************************************************)
(* Model of the two application inspectors of EgypTeam/etops:              *)
(*   src/extscripts/python/dotnet_app_inspector.py  (C# / .csproj)         *)
(*   src/extscripts/python/maven_app_inspector.py   (Java / pom.xml)       *)
(*                                                                         *)
(* Several specifications share the module:                                *)
(*   SanSpec    the two comment/string strippers, run over the same text   *)
(*   ParseSpec  parse_csproj and parse_pom over descriptor documents       *)
(*   GraphSpec  the two build_graph functions over lists of projects    *)
(*   Spec       main(): discovery, per-descriptor loop, graph, report      *)
(*   SumSpec    summarize_sources over one project's listing of files      *)
(*   ParamSpec  the Java parse_param over one parameter text               *)
(* Python's None is the string "None"; Python indices are 0-based and the  *)
(* sequences of the model 1-based, so code[i] of the source is code[i+1].  *)
(***************************************************************************)
EXTENDS Integers, Sequences, FiniteSets, TLC

VARIABLES
    code,       \* sanitizer: the input text, a sequence of characters
    cs,         \* sanitizer: locals of strip_csharp_comments_and_strings
    java,       \* sanitizer: locals of strip_java_comments_and_strings
    descriptor, \* parsing: the descriptor file, [kind, text]
    parsed,     \* parsing: xmlns variant -> result of parse_csproj / parse_pom
    g_tool,     \* graph: "dotnet" or "maven"
    g_projects, \* graph: the parsed projects handed to build_graph
    g_graph,    \* graph: what build_graph returned
    tool,       \* main: which inspector runs, "dotnet" or "maven"
    pc,         \* main: position in main()
    root_exists,\* main: Path(args.root).resolve().exists()
    descriptors,\* main: csprojs / poms, the discovered descriptor paths
    idx,        \* main: number of descriptors the loop has consumed
    meta,       \* main: meta of the descriptor being processed
    scanned,    \* summarize_sources: files rglob has yielded so far
    namespaces, \* summarize_sources: namespaces / packages
    files,      \* summarize_sources: files (the per-file summaries)
    projects,   \* main: projects
    indices,    \* build_graph: by_path, or by_ga and by_gav, once built
    relationships, \* main: relationships
    report,     \* the payloads written to out_path, in order
    exit_code,  \* process exit status, -1 while running
    stderr,     \* lines printed to sys.stderr
    failed_descriptors, \* history: paths whose parse raised
    raised_files,       \* history: source files whose scan raised
    s_tool,       \* summarize_sources: "dotnet" or "maven"
    project_dir,  \* summarize_sources: the argument, an absolute path
    listing,      \* summarize_sources: what rglob yields, [rel, outcome]
    s_i,          \* summarize_sources: listing entries consumed
    s_namespaces, \* summarize_sources: namespaces / packages
    s_files,      \* summarize_sources: files
    s_parsed,     \* history: paths handed to parse_csharp_file / parse_java_file
    s_result,     \* summarize_sources: the returned dict
    stripped_len, \* parse_*_file: len(stripped)
    type_ms,      \* parse_*_file: TYPE_RE.finditer(stripped), [start, name]
    method_ms,    \* parse_*_file: METHOD_RE.finditer(stripped), [pos, name]
    ctor_ms,      \* parse_*_file: CTOR_RE.finditer(stripped), [pos, name]
    x_types,      \* parse_*_file: types
    x_pc,         \* parse_*_file: which loop runs
    x_k,          \* parse_*_file: matches the running loop has consumed
    param_block,  \* split_params: the argument, a sequence of characters
    sp_i,         \* split_params: characters consumed
    depth,        \* split_params: depth
    current,      \* split_params: current
    params,       \* split_params: params
    sp_returned,  \* split_params: whether it has returned
    a_tool,       \* collect_leading_*: "dotnet" (attributes) or "maven"
    a_code,       \* collect_leading_*: the sanitized text
    start_idx,    \* collect_leading_*: offset of the declaration
    a_i,          \* collect_leading_*: i
    attrs,        \* collect_leading_*: attrs / annotations, as collected
    a_returned,   \* collect_leading_*: whether it has returned
    param_text,   \* parse_param: the argument p, a sequence of characters
    param_result, \* parse_param: the returned dict, [keys, type, name, ...]
    param_returned \* parse_param: whether it has returned

sanVars == <<code, cs, java>>
parseVars == <<descriptor, parsed>>
graphVars == <<g_tool, g_projects, g_graph>>
scanVars == <<scanned, namespaces, files>>
mainVars == <<tool, pc, root_exists, descriptors, idx, meta, scanVars,
              projects, indices, relationships, report, exit_code, stderr,
              failed_descriptors, raised_files>>
sumVars == <<s_tool, project_dir, listing, s_i, s_namespaces, s_files,
             s_parsed, s_result>>
extractVars == <<stripped_len, type_ms, method_ms, ctor_ms, x_types, x_pc,
                 x_k>>
splitVars == <<param_block, sp_i, depth, current, params, sp_returned>>
attrVars == <<a_tool, a_code, start_idx, a_i, attrs, a_returned>>
paramVars == <<param_text, param_result, param_returned>>
unitVars == <<sumVars, extractVars, splitVars, attrVars, paramVars>>
nonSanVars == <<parseVars, graphVars, mainVars, unitVars>>
nonParseVars == <<sanVars, graphVars, mainVars, unitVars>>
nonGraphVars == <<sanVars, parseVars, mainVars, unitVars>>
nonMainVars == <<sanVars, parseVars, graphVars, unitVars>>
pipelineVars == <<sanVars, parseVars, graphVars, mainVars>>
nonSumVars == <<pipelineVars, extractVars, splitVars, attrVars, paramVars>>
nonExtractVars == <<pipelineVars, sumVars, splitVars, attrVars, paramVars>>
nonSplitVars == <<pipelineVars, sumVars, extractVars, attrVars, paramVars>>
nonAttrVars == <<pipelineVars, sumVars, extractVars, splitVars, paramVars>>
nonParamVars == <<pipelineVars, sumVars, extractVars, splitVars, attrVars>>
vars == <<pipelineVars, unitVars>>

None == "None"

(***************************************************************************)
(* Bounds.                                                                 *)
(***************************************************************************)
MaxLen == 4
MaxItems == 1       \* ParseSpec: references of each kind per descriptor
MaxGroups == 2      \* ParseSpec: property groups per .csproj
MaxProjects == 2    \* GraphSpec: parsed projects
MaxRefs == 2        \* GraphSpec: project references per .csproj
MaxDeps == 1        \* GraphSpec: dependencies per pom.xml
MaxDescriptors == 2 \* Spec: descriptors discovered under the root
MaxFiles == 1       \* Spec: source files listed per project

(***************************************************************************)
(* Lexical sanitizers.                                                     *)
(***************************************************************************)
NL == "\n"
BS == "\\"
DQ == "\""
SQ == "'"

Chars == {"/", "*", DQ, SQ, BS, NL, "@", "a"}

InputTexts == UNION {[1..n -> Chars] : n \in 0..MaxLen}

\* code[k] for a 0-based k; "" past the end, as ch2 is in the source.
At(text, k) == IF k < Len(text) THEN text[k + 1] ELSE ""

Blank(ch) == IF ch = NL THEN NL ELSE " "

CsStart ==
    [i |-> 0, result |-> <<>>, in_sl_comment |-> FALSE, in_ml_comment |-> FALSE,
     in_str |-> FALSE, in_verbatim_str |-> FALSE, in_char |-> FALSE,
     returned |-> FALSE]

JavaStart ==
    [i |-> 0, result |-> <<>>, in_sl_comment |-> FALSE, in_ml_comment |-> FALSE,
     in_str |-> FALSE, in_char |-> FALSE, returned |-> FALSE]

\* ---- strip_csharp_comments_and_strings, one operator per branch of the loop

CsSlComment(text, m) ==
    LET ch == At(text, m.i) IN
    [m EXCEPT !.result = Append(@, Blank(ch)),
              !.in_sl_comment = IF ch = NL THEN FALSE ELSE @,
              !.i = @ + 1]

\* Mutant: a "*" that does not close the comment is not consumed.
CsMlComment_StuckOnStar(text, m) ==
    LET ch == At(text, m.i)
        ch2 == At(text, m.i + 1) IN
    IF ch = "*" /\ ch2 = "/"
    THEN [m EXCEPT !.in_ml_comment = FALSE,
                   !.result = @ \o <<" ", " ">>, !.i = @ + 2]
    ELSE IF ch = "*" THEN m
    ELSE [m EXCEPT !.result = Append(@, Blank(ch)), !.i = @ + 1]

CsMlComment(text, m) ==
    LET ch == At(text, m.i)
        ch2 == At(text, m.i + 1) IN
    IF ch = "*" /\ ch2 = "/"
    THEN [m EXCEPT !.in_ml_comment = FALSE,
                   !.result = @ \o <<" ", " ">>,
                   !.i = @ + 2]
    ELSE [m EXCEPT !.result = Append(@, Blank(ch)),
                   !.i = @ + 1]

CsVerbatimStr(text, m) ==
    LET ch == At(text, m.i)
        ch2 == At(text, m.i + 1) IN
    IF ch = DQ /\ ch2 = DQ
    THEN [m EXCEPT !.result = @ \o <<" ", " ">>, !.i = @ + 2]
    ELSE IF ch = DQ
    THEN [m EXCEPT !.in_verbatim_str = FALSE,
                   !.result = Append(@, " "),
                   !.i = @ + 1]
    ELSE [m EXCEPT !.result = Append(@, Blank(ch)), !.i = @ + 1]

\* Mutant: an escape inside a string consumes two characters and emits one.
CsStr_OneBlank(text, m) ==
    LET ch == At(text, m.i) IN
    IF ch = BS /\ (m.i + 1) < Len(text)
    THEN [m EXCEPT !.result = Append(@, " "), !.i = @ + 2]
    ELSE IF ch = DQ
    THEN [m EXCEPT !.in_str = FALSE, !.result = Append(@, " "), !.i = @ + 1]
    ELSE [m EXCEPT !.result = Append(@, " "), !.i = @ + 1]

CsStr(text, m) ==
    LET ch == At(text, m.i) IN
    IF ch = BS /\ (m.i + 1) < Len(text)
    THEN [m EXCEPT !.result = @ \o <<" ", " ">>, !.i = @ + 2]
    ELSE IF ch = DQ
    THEN [m EXCEPT !.in_str = FALSE, !.result = Append(@, " "), !.i = @ + 1]
    ELSE [m EXCEPT !.result = Append(@, " "), !.i = @ + 1]

CsChar(text, m) ==
    LET ch == At(text, m.i) IN
    IF ch = BS /\ (m.i + 1) < Len(text)
    THEN [m EXCEPT !.result = @ \o <<" ", " ">>, !.i = @ + 2]
    ELSE IF ch = SQ
    THEN [m EXCEPT !.in_char = FALSE, !.result = Append(@, " "), !.i = @ + 1]
    ELSE [m EXCEPT !.result = Append(@, " "), !.i = @ + 1]

CsNormal(text, m) ==
    LET ch == At(text, m.i)
        ch2 == At(text, m.i + 1) IN
    IF ch = "/" /\ ch2 = "/"
    THEN [m EXCEPT !.in_sl_comment = TRUE,
                   !.result = @ \o <<" ", " ">>, !.i = @ + 2]
    ELSE IF ch = "/" /\ ch2 = "*"
    THEN [m EXCEPT !.in_ml_comment = TRUE,
                   !.result = @ \o <<" ", " ">>, !.i = @ + 2]
    ELSE IF ch = "@" /\ ch2 = DQ
    THEN [m EXCEPT !.in_verbatim_str = TRUE,
                   !.result = @ \o <<" ", " ">>, !.i = @ + 2]
    ELSE IF ch = DQ
    THEN [m EXCEPT !.in_str = TRUE, !.result = Append(@, " "), !.i = @ + 1]
    ELSE IF ch = SQ
    THEN [m EXCEPT !.in_char = TRUE, !.result = Append(@, " "), !.i = @ + 1]
    ELSE [m EXCEPT !.result = Append(@, ch), !.i = @ + 1]

\* ---- strip_java_comments_and_strings, one operator per branch of the loop

\* Mutant: the text of a line comment is copied instead of blanked.
JavaSlComment_KeepsText(text, m) ==
    LET ch == At(text, m.i) IN
    IF ch = NL
    THEN [m EXCEPT !.in_sl_comment = FALSE,
                   !.result = Append(@, ch), !.i = @ + 1]
    ELSE [m EXCEPT !.result = Append(@, ch), !.i = @ + 1]

JavaSlComment(text, m) ==
    LET ch == At(text, m.i) IN
    IF ch = NL
    THEN [m EXCEPT !.in_sl_comment = FALSE,
                   !.result = Append(@, ch), !.i = @ + 1]
    ELSE [m EXCEPT !.result = Append(@, " "), !.i = @ + 1]

JavaMlComment(text, m) ==
    LET ch == At(text, m.i)
        ch2 == At(text, m.i + 1) IN
    IF ch = "*" /\ ch2 = "/"
    THEN [m EXCEPT !.in_ml_comment = FALSE,
                   !.result = @ \o <<" ", " ">>,
                   !.i = @ + 2]
    ELSE [m EXCEPT !.result = Append(@, Blank(ch)),
                   !.i = @ + 1]

\* Mutant: a backslash inside a string is an ordinary character, so the
\* quote after it ends the literal.
JavaStr_EscapeIgnored(text, m) ==
    LET ch == At(text, m.i) IN
    IF ch = DQ
    THEN [m EXCEPT !.in_str = FALSE, !.result = Append(@, " "), !.i = @ + 1]
    ELSE [m EXCEPT !.result = Append(@, " "), !.i = @ + 1]

JavaStr(text, m) ==
    LET ch == At(text, m.i) IN
    IF ch = BS /\ (m.i + 1) < Len(text)
    THEN [m EXCEPT !.result = @ \o <<" ", " ">>, !.i = @ + 2]
    ELSE IF ch = DQ
    THEN [m EXCEPT !.in_str = FALSE, !.result = Append(@, " "), !.i = @ + 1]
    ELSE [m EXCEPT !.result = Append(@, " "), !.i = @ + 1]

JavaChar(text, m) ==
    LET ch == At(text, m.i) IN
    IF ch = BS /\ (m.i + 1) < Len(text)
    THEN [m EXCEPT !.result = @ \o <<" ", " ">>, !.i = @ + 2]
    ELSE IF ch = SQ
    THEN [m EXCEPT !.in_char = FALSE, !.result = Append(@, " "), !.i = @ + 1]
    ELSE [m EXCEPT !.result = Append(@, " "), !.i = @ + 1]

JavaNormal(text, m) ==
    LET ch == At(text, m.i)
        ch2 == At(text, m.i + 1) IN
    IF ch = "/" /\ ch2 = "/"
    THEN [m EXCEPT !.in_sl_comment = TRUE,
                   !.result = @ \o <<" ", " ">>, !.i = @ + 2]
    ELSE IF ch = "/" /\ ch2 = "*"
    THEN [m EXCEPT !.in_ml_comment = TRUE,
                   !.result = @ \o <<" ", " ">>, !.i = @ + 2]
    ELSE IF ch = DQ
    THEN [m EXCEPT !.in_str = TRUE, !.result = Append(@, " "), !.i = @ + 1]
    ELSE IF ch = SQ
    THEN [m EXCEPT !.in_char = TRUE, !.result = Append(@, " "), !.i = @ + 1]
    ELSE [m EXCEPT !.result = Append(@, ch), !.i = @ + 1]

\* The two strippers are separate programs; the model runs them over the same
\* text side by side, the one that has consumed less stepping next.
CsTurn == ~cs.returned /\ (cs.i <= java.i \/ java.returned)
JavaTurn == ~java.returned /\ (java.i < cs.i \/ cs.returned)

CsLoop == CsTurn /\ cs.i < Len(code)
JavaLoop == JavaTurn /\ java.i < Len(code)

CsStepSlComment ==
    /\ CsLoop /\ cs.in_sl_comment
    /\ cs' = CsSlComment(code, cs)
    /\ UNCHANGED <<code, java, nonSanVars>>

CsStepMlComment ==
    /\ CsLoop /\ ~cs.in_sl_comment /\ cs.in_ml_comment
    /\ cs' = CsMlComment(code, cs)
    /\ UNCHANGED <<code, java, nonSanVars>>

CsStepVerbatimStr ==
    /\ CsLoop /\ ~cs.in_sl_comment /\ ~cs.in_ml_comment /\ cs.in_verbatim_str
    /\ cs' = CsVerbatimStr(code, cs)
    /\ UNCHANGED <<code, java, nonSanVars>>

CsStepStr ==
    /\ CsLoop /\ ~cs.in_sl_comment /\ ~cs.in_ml_comment /\ ~cs.in_verbatim_str
    /\ cs.in_str
    /\ cs' = CsStr(code, cs)
    /\ UNCHANGED <<code, java, nonSanVars>>

CsStepChar ==
    /\ CsLoop /\ ~cs.in_sl_comment /\ ~cs.in_ml_comment /\ ~cs.in_verbatim_str
    /\ ~cs.in_str /\ cs.in_char
    /\ cs' = CsChar(code, cs)
    /\ UNCHANGED <<code, java, nonSanVars>>

CsStepNormal ==
    /\ CsLoop /\ ~cs.in_sl_comment /\ ~cs.in_ml_comment /\ ~cs.in_verbatim_str
    /\ ~cs.in_str /\ ~cs.in_char
    /\ cs' = CsNormal(code, cs)
    /\ UNCHANGED <<code, java, nonSanVars>>

\* while i < n fails: return "".join(result)
CsReturn ==
    /\ CsTurn /\ ~(cs.i < Len(code))
    /\ cs' = [cs EXCEPT !.returned = TRUE]
    /\ UNCHANGED <<code, java, nonSanVars>>

JavaStepSlComment ==
    /\ JavaLoop /\ java.in_sl_comment
    /\ java' = JavaSlComment(code, java)
    /\ UNCHANGED <<code, cs, nonSanVars>>

JavaStepMlComment ==
    /\ JavaLoop /\ ~java.in_sl_comment /\ java.in_ml_comment
    /\ java' = JavaMlComment(code, java)
    /\ UNCHANGED <<code, cs, nonSanVars>>

JavaStepStr ==
    /\ JavaLoop /\ ~java.in_sl_comment /\ ~java.in_ml_comment /\ java.in_str
    /\ java' = JavaStr(code, java)
    /\ UNCHANGED <<code, cs, nonSanVars>>

JavaStepChar ==
    /\ JavaLoop /\ ~java.in_sl_comment /\ ~java.in_ml_comment /\ ~java.in_str
    /\ java.in_char
    /\ java' = JavaChar(code, java)
    /\ UNCHANGED <<code, cs, nonSanVars>>

JavaStepNormal ==
    /\ JavaLoop /\ ~java.in_sl_comment /\ ~java.in_ml_comment /\ ~java.in_str
    /\ ~java.in_char
    /\ java' = JavaNormal(code, java)
    /\ UNCHANGED <<code, cs, nonSanVars>>

JavaReturn ==
    /\ JavaTurn /\ ~(java.i < Len(code))
    /\ java' = [java EXCEPT !.returned = TRUE]
    /\ UNCHANGED <<code, cs, nonSanVars>>

SanIdle == code = <<>> /\ cs = CsStart /\ java = JavaStart
ParseIdle == descriptor = [kind |-> "none"] /\ parsed = <<>>
GraphIdle == g_tool = "none" /\ g_projects = <<>> /\ g_graph = <<>>
MainIdle ==
    /\ tool = "none" /\ pc = "idle" /\ root_exists = FALSE
    /\ descriptors = <<>> /\ idx = 0 /\ meta = <<>>
    /\ scanned = 0 /\ namespaces = <<>> /\ files = <<>>
    /\ projects = <<>> /\ indices = <<>> /\ relationships = <<>>
    /\ report = <<>> /\ exit_code = -1 /\ stderr = <<>>
    /\ failed_descriptors = {} /\ raised_files = {}
SumIdle ==
    /\ s_tool = "none" /\ project_dir = <<>> /\ listing = <<>> /\ s_i = 0
    /\ s_namespaces = <<>> /\ s_files = <<>> /\ s_parsed = <<>>
    /\ s_result = <<>>
ExtractIdle ==
    /\ stripped_len = 0 /\ type_ms = <<>> /\ method_ms = <<>>
    /\ ctor_ms = <<>> /\ x_types = <<>> /\ x_pc = "idle" /\ x_k = 0
SplitIdle ==
    /\ param_block = <<>> /\ sp_i = 0 /\ depth = 0 /\ current = <<>>
    /\ params = <<>> /\ sp_returned = FALSE
AttrIdle ==
    /\ a_tool = "none" /\ a_code = <<>> /\ start_idx = 0 /\ a_i = 0
    /\ attrs = <<>> /\ a_returned = FALSE
\* a dict of parse_param: the keys it holds and their values
EmptyDict ==
    [keys |-> {}, type |-> <<>>, name |-> <<>>, varargs |-> FALSE,
     annotations |-> <<>>, raw |-> <<>>]
ParamIdle ==
    /\ param_text = <<>> /\ param_result = EmptyDict
    /\ param_returned = FALSE
UnitIdle == SumIdle /\ ExtractIdle /\ SplitIdle /\ AttrIdle /\ ParamIdle
PipelineIdle == SanIdle /\ ParseIdle /\ GraphIdle /\ MainIdle

SanInit ==
    /\ code \in InputTexts
    /\ cs = CsStart
    /\ java = JavaStart
    /\ ParseIdle /\ GraphIdle /\ MainIdle /\ UnitIdle

SanNext ==
    \/ CsStepSlComment \/ CsStepMlComment \/ CsStepVerbatimStr
    \/ CsStepStr \/ CsStepChar \/ CsStepNormal \/ CsReturn
    \/ JavaStepSlComment \/ JavaStepMlComment
    \/ JavaStepStr \/ JavaStepChar \/ JavaStepNormal \/ JavaReturn

SanSpec == SanInit /\ [][SanNext]_vars

(***************************************************************************)
(* Claims about the sanitizers (SanSpec).                                  *)
(***************************************************************************)
NewlinesKept(text, out) ==
    /\ \A k \in 1..Len(text) :
           text[k] = NL => (k <= Len(out) /\ out[k] = NL)
    /\ \A k \in 1..Len(out) :
           out[k] = NL => (k <= Len(text) /\ text[k] = NL)

\* C1 (as claimed): the text each sanitizer returns has a newline at exactly
\* the positions where the input has one, literals and escapes included.
C1_NewlinePositionsPreserved ==
    /\ cs.returned => NewlinesKept(code, cs.result)
    /\ java.returned => NewlinesKept(code, java.result)

\* C2: at every step of either scan the number of characters emitted equals
\* the number of input characters consumed, the index never passes the end
\* of the input, and the returned text is as long as the input.
C2_LengthPreserved ==
    /\ Len(cs.result) = cs.i /\ cs.i <= Len(code)
    /\ Len(java.result) = java.i /\ java.i <= Len(code)
    /\ cs.returned => Len(cs.result) = Len(code)
    /\ java.returned => Len(java.result) = Len(code)

\* C2 witness: both scans have returned on an input that opens a string
\* literal and ends with a lone backslash inside it.
C2_Witness ==
    /\ cs.returned /\ java.returned
    /\ Len(code) >= 3
    /\ code[1] = DQ /\ code[2] = "/" /\ code[Len(code)] = BS
    /\ cs.in_str /\ java.in_str

(***************************************************************************)
(* Descriptor documents.  A descriptor file is [form, xmlns, root]: root   *)
(* is the element tree as written (local names), xmlns the default         *)
(* namespace declared on the root element ("" when none is declared), and  *)
(* form says whether the text is well-formed XML:                          *)
(*   "ok"         well-formed                                              *)
(*   "dup_xmlns"  the xmlns attribute is written twice; removing every     *)
(*                xmlns="..." leaves well-formed text                      *)
(*   "broken"     not well-formed, with or without its xmlns attributes    *)
(* An element is [tag, text, attrib, children]; a parsed element's tag is  *)
(* <<uri, local>>, ElementTree's "{uri}local" ("local" when uri = "").     *)
(***************************************************************************)
PomNs == "http://maven.apache.org/POM/4.0.0"
MsbuildNs == "http://schemas.microsoft.com/developer/msbuild/2003"

NoAttrib == [Include |-> None, Version |-> None]

El(tag, text, attrib, children) ==
    [tag |-> tag, text |-> text, attrib |-> attrib, children |-> children]

Leaf(tag, text) == El(tag, text, NoAttrib, <<>>)

ParseError == [error |-> "ParseError"]
SyntaxError == [error |-> "SyntaxError"]
Raised(r) == "error" \in DOMAIN r

RECURSIVE Qualify(_, _)
Qualify(el, uri) ==
    [el EXCEPT !.tag = <<uri, el.tag>>,
               !.children = [k \in DOMAIN el.children |->
                                 Qualify(el.children[k], uri)]]

\* ET.fromstring(text): the root element, or ParseError.
ET_fromstring(text) ==
    IF text.form # "ok" THEN ParseError ELSE Qualify(text.root, text.xmlns)

\* re.sub(r'xmlns="[^"]+"', "", text)
StripXmlnsDecl(text) ==
    [text EXCEPT !.xmlns = "",
                 !.form = IF @ = "dup_xmlns" THEN "ok" ELSE @]

\* str.strip() on the texts of the model: " " is the whitespace-only text.
Strip(t) == IF t = " " THEN "" ELSE t

\* _xml_text(el); NoElement is find()'s None.
NoElement == [tag |-> None]
xml_text(el) ==
    IF el # NoElement /\ el.text # None /\ el.text # ""
    THEN Strip(el.text) ELSE None

\* Python truthiness of an Optional[str]
Truthy(v) == v # None /\ v # ""

\* v or d
Or(v, d) == IF Truthy(v) THEN v ELSE d

\* el.find(tag) / el.findall(tag) for a one-step path: direct children.
FindAll(el, qtag) == SelectSeq(el.children, LAMBDA c : c.tag = qtag)
Find(el, qtag) ==
    LET hits == FindAll(el, qtag) IN
    IF hits = <<>> THEN NoElement ELSE hits[1]

RECURSIVE Flatten(_)
Flatten(seqs) ==
    IF seqs = <<>> THEN <<>> ELSE Head(seqs) \o Flatten(Tail(seqs))

Map(f(_), s) == [k \in DOMAIN s |-> f(s[k])]

\* ---- parse_csproj

RECURSIVE StripTags(_)
StripTags(el) ==
    [el EXCEPT !.tag = <<"", el.tag[2]>>,
               !.children = [k \in DOMAIN el.children |->
                                 StripTags(el.children[k])]]

\* props: first truthy value of each tag over the property groups in order.
RECURSIVE FirstValue(_, _)
FirstValue(children, tag) ==
    IF children = <<>> THEN None
    ELSE LET val == xml_text(Head(children)) IN
         IF Head(children).tag = <<"", tag>> /\ Truthy(val) THEN val
         ELSE FirstValue(Tail(children), tag)

\* Mutant: a later occurrence of a tag replaces the earlier value.
CsprojProps_LastWins(root, tag) ==
    LET ch == Flatten(Map(LAMBDA pg : pg.children,
                          FindAll(root, <<"", "PropertyGroup">>)))
    IN FirstValue([k \in 1..Len(ch) |-> ch[Len(ch) + 1 - k]], tag)

CsprojProps(root, tag) ==
    FirstValue(Flatten(Map(LAMBDA pg : pg.children,
                           FindAll(root, <<"", "PropertyGroup">>))), tag)

CsprojProjectRef(pr) ==
    [include |-> pr.attrib.Include,
     name |-> Or(xml_text(Find(pr, <<"", "Name">>)), None),
     project_guid |-> Or(xml_text(Find(pr, <<"", "Project">>)), None)]

CsprojPackageRef(pr) ==
    [name |-> pr.attrib.Include,
     version |-> Or(pr.attrib.Version,
                    Or(xml_text(Find(pr, <<"", "Version">>)), None)),
     include |-> pr.attrib.Include]

CsprojItems(root, tag) ==
    SelectSeq(Flatten(Map(LAMBDA ig : FindAll(ig, <<"", tag>>),
                          FindAll(root, <<"", "ItemGroup">>))),
              LAMBDA pr : Truthy(pr.attrib.Include))

\* props["TargetFrameworks"].split(";"), stripped, empty parts dropped, over
\* the values of the model.
SplitSemi(v) ==
    CASE v = None -> {}
      [] v = "net6;net8" -> {"net6", "net8"}
      [] OTHER -> {v}

\* target_frameworks is sorted(set(tfs)); the model keeps the set.
CsprojMeta(path, root) ==
    [csproj_path |-> path,
     dir |-> SubSeq(path, 1, Len(path) - 1),
     assembly_name |-> CsprojProps(root, "AssemblyName"),
     root_namespace |-> CsprojProps(root, "RootNamespace"),
     target_frameworks |->
         ({CsprojProps(root, "TargetFramework")} \ {None})
         \cup SplitSemi(CsprojProps(root, "TargetFrameworks")),
     output_type |-> CsprojProps(root, "OutputType"),
     project_references |->
         Map(CsprojProjectRef, CsprojItems(root, "ProjectReference")),
     package_references |->
         Map(CsprojPackageRef, CsprojItems(root, "PackageReference"))]

parse_csproj(path, text) ==
    LET first == ET_fromstring(text)
        root == IF Raised(first) THEN ET_fromstring(StripXmlnsDecl(text))
                ELSE first
    IN IF Raised(root) THEN root ELSE CsprojMeta(path, StripTags(root))

\* ---- parse_pom

\* "m:<local>" looked up without a prefix map in a one-step path is compared
\* with the tags as it stands.
Prefixed(local) ==
    CASE local = "groupId" -> "m:groupId"
      [] local = "artifactId" -> "m:artifactId"
      [] local = "version" -> "m:version"
      [] local = "name" -> "m:name"
      [] local = "packaging" -> "m:packaging"
      [] local = "parent" -> "m:parent"
      [] local = "relativePath" -> "m:relativePath"
      [] local = "scope" -> "m:scope"
      [] local = "type" -> "m:type"
      [] local = "optional" -> "m:optional"
      [] OTHER -> "m:other"

\* el.find("m:<local>", ns if ns["m"] else None)
PomFind(el, m, local) ==
    IF m # "" THEN Find(el, <<m, local>>)
    ELSE Find(el, <<"", Prefixed(local)>>)

\* findall("m:<a>/m:<b>") on the root: a two-step path goes through
\* ElementPath, which raises SyntaxError for a prefix with no prefix map.
PomFindAll2(root, m, a, b) ==
    IF m = "" THEN SyntaxError
    ELSE [items |-> Flatten(Map(LAMBDA e : FindAll(e, <<m, b>>),
                                FindAll(root, <<m, a>>)))]

\* Coordinates: f"{g}:{a}" is <<g, a>>, f"{g}:{a}:{v}" is <<g, a, v>>, and a
\* None where a coordinate is expected is the empty tuple.
NoKey == <<>>

ga_key(g, a) == IF Truthy(g) /\ Truthy(a) THEN <<g, a>> ELSE NoKey
gav_key(g, a, v) ==
    IF Truthy(g) /\ Truthy(a) /\ Truthy(v) THEN <<g, a, v>> ELSE NoKey

NoParent == [none |-> TRUE]

PomDependency(d, m) ==
    LET dg == xml_text(PomFind(d, m, "groupId"))
        da == xml_text(PomFind(d, m, "artifactId"))
        dv == xml_text(PomFind(d, m, "version"))
        ds == xml_text(PomFind(d, m, "scope"))
    IN [groupId |-> dg, artifactId |-> da, version |-> dv,
        scope |-> Or(ds, "compile"),
        ga |-> IF Truthy(dg) /\ Truthy(da) THEN <<dg, da>> ELSE NoKey,
        gav |-> IF Truthy(dg) /\ Truthy(da) /\ Truthy(dv)
                THEN <<dg, da, dv>> ELSE NoKey]

PomParentInfo(parent, m) ==
    IF parent = NoElement THEN NoParent
    ELSE [groupId |-> xml_text(PomFind(parent, m, "groupId")),
          artifactId |-> xml_text(PomFind(parent, m, "artifactId")),
          version |-> xml_text(PomFind(parent, m, "version")),
          relativePath |-> xml_text(PomFind(parent, m, "relativePath"))]

PomMeta(path, root, m) ==
    LET gid == xml_text(PomFind(root, m, "groupId"))
        aid == xml_text(PomFind(root, m, "artifactId"))
        ver == xml_text(PomFind(root, m, "version"))
        parent_info == PomParentInfo(PomFind(root, m, "parent"), m)
        modules == PomFindAll2(root, m, "modules", "module")
        deps == PomFindAll2(root, m, "dependencies", "dependency")
    IN IF Raised(modules) THEN modules
       ELSE
       [pom_path |-> path,
        dir |-> SubSeq(path, 1, Len(path) - 1),
        groupId |-> IF gid = None /\ parent_info # NoParent
                    THEN parent_info.groupId ELSE gid,
        artifactId |-> aid,
        version |-> IF ver = None /\ parent_info # NoParent
                    THEN parent_info.version ELSE ver,
        name |-> xml_text(PomFind(root, m, "name")),
        packaging |-> Or(xml_text(PomFind(root, m, "packaging")), "jar"),
        parent |-> parent_info,
        modules |-> SelectSeq(Map(xml_text, modules.items), Truthy),
        dependencies |-> Map(LAMBDA d : PomDependency(d, m), deps.items)]

parse_pom(path, text) ==
    LET first == ET_fromstring(text)
        root == IF Raised(first) THEN ET_fromstring(StripXmlnsDecl(text))
                ELSE first
        m == IF Raised(first) THEN "" ELSE PomNs
    IN IF Raised(root) THEN root ELSE PomMeta(path, root, m)

(***************************************************************************)
(* Paths.  An absolute path is the sequence of its components; Path(s) for *)
(* the strings of the model is [abs, parts]; resolve() removes "." and     *)
(* ".." (the trees of the model hold no symbolic links).                   *)
(***************************************************************************)
PathParts(s) ==
    CASE s = "../b/b.csproj" -> [abs |-> FALSE, parts |-> <<"..", "b", "b.csproj">>]
      [] s = "/ws/a/a.csproj" -> [abs |-> TRUE, parts |-> <<"ws", "a", "a.csproj">>]
      [] s = "./x/../../c/c.csproj" ->
             [abs |-> FALSE, parts |-> <<".", "x", "..", "..", "c", "c.csproj">>]
      [] s = "..\\b\\b.csproj" -> [abs |-> FALSE, parts |-> <<"..\\b\\b.csproj">>]
      [] OTHER -> [abs |-> FALSE, parts |-> <<s>>]

\* base / s
JoinPath(base, s) ==
    IF PathParts(s).abs THEN PathParts(s).parts ELSE base \o PathParts(s).parts

RECURSIVE ResolveFrom(_, _)
ResolveFrom(done, rest) ==
    IF rest = <<>> THEN done
    ELSE IF Head(rest) = "." THEN ResolveFrom(done, Tail(rest))
    ELSE IF Head(rest) = ".."
    THEN ResolveFrom(IF done = <<>> THEN done
                     ELSE SubSeq(done, 1, Len(done) - 1), Tail(rest))
    ELSE ResolveFrom(Append(done, Head(rest)), Tail(rest))

Resolve(path) == ResolveFrom(<<>>, path)

\* The value a dict built by "for p in projects: d[key(p)] = p" holds for k.
LastWith(projs, key(_), k) ==
    projs[CHOOSE i \in DOMAIN projs :
                /\ key(projs[i]) = k
                /\ \A j \in DOMAIN projs : key(projs[j]) = k => j <= i]

Keys(projs, key(_)) == {key(projs[i]) : i \in DOMAIN projs}

\* ---- build_graph (dotnet)

CsprojKey(p) == Resolve(p.csproj_path)

by_path(projs) ==
    [k \in Keys(projs, CsprojKey) |-> LastWith(projs, CsprojKey, k)]

\* Mutant: the include is joined to the project directory but not resolved.
DotnetRefEdge_Unresolved(projs, p, pr) ==
    LET target_path == JoinPath(p.dir, pr.include)
        to_proj == IF target_path \in DOMAIN by_path(projs)
                   THEN by_path(projs)[target_path].csproj_path
                   ELSE <<>>
    IN [from |-> p.csproj_path,
        to |-> IF to_proj # <<>> THEN to_proj ELSE target_path,
        name |-> pr.name,
        project_guid |-> pr.project_guid]

DotnetRefEdge(projs, p, pr) ==
    LET base_dir == Resolve(p.dir)
        target_path == Resolve(JoinPath(base_dir, pr.include))
        to_proj == IF target_path \in DOMAIN by_path(projs)
                   THEN by_path(projs)[target_path].csproj_path
                   ELSE <<>>
    IN [from |-> p.csproj_path,
        to |-> IF to_proj # <<>> THEN to_proj ELSE target_path,
        name |-> pr.name,
        project_guid |-> pr.project_guid]

DotnetRefEdgesOf(projs, p) ==
    LET refs == SelectSeq(p.project_references,
                          LAMBDA pr : Truthy(pr.include))
    IN [k \in DOMAIN refs |-> DotnetRefEdge(projs, p, refs[k])]

DotnetPackageEdgesOf(p) ==
    [k \in DOMAIN p.package_references |->
        [from |-> p.csproj_path,
         package |-> p.package_references[k].name,
         version |-> p.package_references[k].version]]

build_graph_dotnet(projs) ==
    [project_references |->
         Flatten([i \in DOMAIN projs |->
                     DotnetRefEdgesOf(projs, projs[i])]),
     package_dependencies |->
         Flatten([i \in DOMAIN projs |->
                     DotnetPackageEdgesOf(projs[i])])]

\* ---- build_graph (maven)

ProjectGa(p) == ga_key(p.groupId, p.artifactId)
ProjectGav(p) == gav_key(p.groupId, p.artifactId, p.version)

by_gav(projs) ==
    [k \in Keys(projs, ProjectGav) \ {NoKey} |->
        LastWith(projs, ProjectGav, k)]

by_ga(projs) ==
    [k \in Keys(projs, ProjectGa) \ {NoKey} |->
        LastWith(projs, ProjectGa, k)]

MavenParentChild(projs) ==
    LET linked == SelectSeq(projs, LAMBDA p :
                     /\ p.parent # NoParent
                     /\ gav_key(p.parent.groupId, p.parent.artifactId,
                                p.parent.version) # NoKey
                     /\ ProjectGav(p) # NoKey)
    IN [k \in DOMAIN linked |->
           [parent |-> gav_key(linked[k].parent.groupId,
                               linked[k].parent.artifactId,
                               linked[k].parent.version),
            child |-> ProjectGav(linked[k])]]

MavenModulesOf(p) ==
    [k \in DOMAIN p.modules |->
        [aggregator |-> ProjectGav(p),
         module_path |-> Resolve(JoinPath(p.dir, p.modules[k]))]]

MavenDepTarget(projs, d) ==
    IF d.gav # NoKey /\ d.gav \in DOMAIN by_gav(projs)
    THEN d.gav
    ELSE IF d.ga # NoKey /\ d.ga \in DOMAIN by_ga(projs)
    THEN ProjectGav(by_ga(projs)[d.ga])
    ELSE IF d.ga # NoKey THEN d.ga ELSE <<"external">>

MavenDepEdgesOf(projs, p) ==
    IF ProjectGav(p) = NoKey THEN <<>>
    ELSE [k \in DOMAIN p.dependencies |->
             [from |-> ProjectGav(p),
              to |-> MavenDepTarget(projs, p.dependencies[k]),
              scope |-> p.dependencies[k].scope]]

build_graph_maven(projs) ==
    [parent_child |-> MavenParentChild(projs),
     module_inclusion |->
         Flatten([i \in DOMAIN projs |-> MavenModulesOf(projs[i])]),
     dependencies |->
         Flatten([i \in DOMAIN projs |->
                     MavenDepEdgesOf(projs, projs[i])])]

(***************************************************************************)
(* ParseSpec: the descriptor files the parsers are run on.                 *)
(***************************************************************************)
Absent == "Absent"
Opt(tag, v) == IF v = Absent THEN <<>> ELSE <<Leaf(tag, v)>>

SeqsUpTo(S, n) == UNION {[1..k -> S] : k \in 0..n}

Forms == {"ok", "dup_xmlns", "broken"}

PomDepEl(g, a, v) ==
    El("dependency", None, NoAttrib,
       Opt("groupId", g) \o Opt("artifactId", a) \o Opt("version", v))

PomDepEls ==
    {PomDepEl("g", a, v) : a \in {"a", "b"}, v \in {Absent, "1", "2"}}

PomParentEls ==
    {<<>>, <<El("parent", None, NoAttrib,
                <<Leaf("groupId", "g"), Leaf("artifactId", "p"),
                  Leaf("version", "1")>>)>>}

PomRoot(g, a, v, parent, deps) ==
    El("project", None, NoAttrib,
       Opt("groupId", g) \o Opt("artifactId", a) \o Opt("version", v)
       \o parent
       \o (IF deps = <<>> THEN <<>>
           ELSE <<El("dependencies", None, NoAttrib, deps)>>))

PomRoots ==
    {PomRoot(g, a, v, parent, deps) :
        g \in {Absent, "g"}, a \in {Absent, "a"}, v \in {Absent, "1", " "},
        parent \in PomParentEls, deps \in SeqsUpTo(PomDepEls, MaxItems)}

PropertyGroupEls ==
    {El("PropertyGroup", None, NoAttrib, props) :
        props \in {<<Leaf("AssemblyName", "x")>>,
                   <<Leaf("AssemblyName", "y"), Leaf("RootNamespace", "r")>>,
                   <<Leaf("AssemblyName", " "),
                     Leaf("TargetFrameworks", "net6;net8")>>}}

ProjectReferenceEls ==
    {El("ProjectReference", None, [NoAttrib EXCEPT !.Include = inc], kids) :
        inc \in {None, "../b/b.csproj"},
        kids \in {<<>>, <<Leaf("Name", "b")>>}}

PackageReferenceEls ==
    {El("PackageReference", None,
        [Include |-> "Lib", Version |-> ver], kids) :
        ver \in {None, "1.0"}, kids \in {<<>>, <<Leaf("Version", "2.0")>>}}

CsprojRoot(groups, prefs, pkgs) ==
    El("Project", None, NoAttrib,
       groups \o (IF prefs \o pkgs = <<>> THEN <<>>
                  ELSE <<El("ItemGroup", None, NoAttrib, prefs \o pkgs)>>))

CsprojRoots ==
    {CsprojRoot(groups, prefs, pkgs) :
        groups \in SeqsUpTo(PropertyGroupEls, MaxGroups),
        prefs \in SeqsUpTo(ProjectReferenceEls, MaxItems),
        pkgs \in SeqsUpTo(PackageReferenceEls, MaxItems)}

DeclaredNs(kind) == IF kind = "pom" THEN PomNs ELSE MsbuildNs

\* The descriptor's text with its default namespace declared, or with the
\* declaration left out (and so no xmlns attribute to write twice).
VariantText(d, v) ==
    IF v = "declared"
    THEN [form |-> d.form, xmlns |-> DeclaredNs(d.kind), root |-> d.root]
    ELSE [form |-> IF d.form = "dup_xmlns" THEN "ok" ELSE d.form,
          xmlns |-> "", root |-> d.root]

Variants == {"declared", "omitted"}
Pending == [status |-> "pending"]

ParseInit ==
    /\ \E kind \in {"csproj", "pom"}, form \in Forms :
         \E root \in IF kind = "pom" THEN PomRoots ELSE CsprojRoots :
            descriptor = [kind |-> kind, form |-> form, root |-> root,
                          path |-> IF kind = "pom" THEN <<"ws", "a", "pom.xml">>
                                   ELSE <<"ws", "a", "a.csproj">>]
    /\ parsed = [v \in Variants |-> Pending]
    /\ SanIdle /\ GraphIdle /\ MainIdle /\ UnitIdle

ParseCsproj(v) ==
    /\ descriptor.kind = "csproj"
    /\ parsed[v] = Pending
    /\ parsed' = [parsed EXCEPT
                    ![v] = parse_csproj(descriptor.path,
                                        VariantText(descriptor, v))]
    /\ UNCHANGED <<descriptor, nonParseVars>>

ParsePom(v) ==
    /\ descriptor.kind = "pom"
    /\ parsed[v] = Pending
    /\ parsed' = [parsed EXCEPT
                    ![v] = parse_pom(descriptor.path,
                                     VariantText(descriptor, v))]
    /\ UNCHANGED <<descriptor, nonParseVars>>

ParseNext ==
    \/ \E v \in Variants : ParseCsproj(v)
    \/ \E v \in Variants : ParsePom(v)

ParseSpec == ParseInit /\ [][ParseNext]_vars

\* C3 (as claimed): for a well-formed descriptor, parsing the text without
\* its default namespace declaration gives the same result (identity fields
\* and references) as parsing it with the declaration, and does not fail.
C3_NamespaceOmissionTolerated ==
    (/\ descriptor.kind \in {"csproj", "pom"}
     /\ descriptor.form = "ok"
     /\ parsed["declared"] # Pending
     /\ parsed["omitted"] # Pending)
    => (/\ ~Raised(parsed["omitted"])
        /\ parsed["omitted"] = parsed["declared"])

(***************************************************************************)
(* GraphSpec: build_graph over the projects parse_csproj / parse_pom    *)
(* give for the descriptors of a workspace /ws, one per directory.         *)
(***************************************************************************)
ProjectDirs == <<"a", "b", "c", "d">>

CsprojNames == <<"a.csproj", "b.csproj", "c.csproj", "d.csproj">>

CsprojPath(k) == <<"ws", ProjectDirs[k], CsprojNames[k]>>
PomPath(k) == <<"ws", ProjectDirs[k], "pom.xml">>

GraphIncludes == {"../b/b.csproj", "/ws/a/a.csproj", "..\\b\\b.csproj"}

GraphProjectReferenceEls ==
    {El("ProjectReference", None, [NoAttrib EXCEPT !.Include = inc], <<>>) :
        inc \in GraphIncludes}

GraphPackageReferenceEls ==
    {<<>>, <<El("PackageReference", None,
                [Include |-> "Lib", Version |-> "1.0"], <<>>)>>}

GraphCsprojTexts ==
    {[form |-> "ok", xmlns |-> "", root |-> CsprojRoot(<<>>, prefs, pkgs)] :
        prefs \in SeqsUpTo(GraphProjectReferenceEls, MaxRefs),
        pkgs \in GraphPackageReferenceEls}

GraphCoordinates ==
    {<<"g", "a", "1">>, <<"g", "a", "2">>, <<"g", "a", Absent>>,
     <<Absent, "a", "1">>, <<"g", "b", "1">>}

GraphPomDepEls ==
    {PomDepEl("g", "a", "2"), PomDepEl("g", "b", Absent),
     PomDepEl("x", "y", "1")}

GraphPomTexts ==
    {[form |-> "ok", xmlns |-> PomNs,
      root |-> PomRoot(c[1], c[2], c[3], <<>>, deps)] :
        c \in GraphCoordinates, deps \in SeqsUpTo(GraphPomDepEls, MaxDeps)}

NotBuilt == [status |-> "pending"]

GraphInit ==
    /\ g_tool \in {"dotnet", "maven"}
    /\ \E n \in 0..MaxProjects :
         \E texts \in [1..n -> IF g_tool = "dotnet" THEN GraphCsprojTexts
                                ELSE GraphPomTexts] :
            g_projects = [k \in 1..n |->
                            IF g_tool = "dotnet"
                            THEN parse_csproj(CsprojPath(k), texts[k])
                            ELSE parse_pom(PomPath(k), texts[k])]
    /\ g_graph = NotBuilt
    /\ SanIdle /\ ParseIdle /\ MainIdle /\ UnitIdle

BuildGraphDotnet ==
    /\ g_tool = "dotnet" /\ g_graph = NotBuilt
    /\ g_graph' = build_graph_dotnet(g_projects)
    /\ UNCHANGED <<g_tool, g_projects, nonGraphVars>>

BuildGraphMaven ==
    /\ g_tool = "maven" /\ g_graph = NotBuilt
    /\ g_graph' = build_graph_maven(g_projects)
    /\ UNCHANGED <<g_tool, g_projects, nonGraphVars>>

GraphNext == BuildGraphDotnet \/ BuildGraphMaven

GraphSpec == GraphInit /\ [][GraphNext]_vars

RECURSIVE SumLen(_)
SumLen(seqs) == IF seqs = <<>> THEN 0 ELSE Len(Head(seqs)) + SumLen(Tail(seqs))

\* C4 (as claimed): the graph holds one dependency edge for every package
\* reference / dependency of every parsed project, whatever the project's
\* own coordinates are.
C4_OneEdgePerDependency ==
    /\ (g_tool = "dotnet" /\ g_graph # NotBuilt) =>
          Len(g_graph.package_dependencies)
              = SumLen([i \in DOMAIN g_projects |->
                           g_projects[i].package_references])
    /\ (g_tool = "maven" /\ g_graph # NotBuilt) =>
          Len(g_graph.dependencies)
              = SumLen([i \in DOMAIN g_projects |->
                           g_projects[i].dependencies])

\* The dependencies of the projects build_graph emits edges for, in order.
EmittingDeps ==
    Flatten([i \in DOMAIN g_projects |->
                IF ProjectGav(g_projects[i]) = NoKey THEN <<>>
                ELSE g_projects[i].dependencies])

\* C7 (as claimed): an emitted dependency edge whose dependency names the
\* group:artifact of a parsed project targets the group:artifact:version
\* identity of a parsed project with that group:artifact, built from that
\* project's declared version, and the target is never empty.
C7_InternalTargetIsOwnIdentity ==
    (g_tool = "maven" /\ g_graph # NotBuilt) =>
       /\ Len(g_graph.dependencies) = Len(EmittingDeps)
       /\ \A k \in DOMAIN EmittingDeps :
            LET d == EmittingDeps[k]
                owners == {i \in DOMAIN g_projects :
                              ProjectGa(g_projects[i]) = d.ga}
            IN (d.ga # NoKey /\ owners # {}) =>
                  /\ g_graph.dependencies[k].to # NoKey
                  /\ \E i \in owners :
                        /\ Truthy(g_projects[i].version)
                        /\ g_graph.dependencies[k].to
                             = <<g_projects[i].groupId,
                                 g_projects[i].artifactId,
                                 g_projects[i].version>>

\* The project references with a non-empty include, as <<project, reference>>
\* index pairs in project order then reference order.
RefPairs ==
    Flatten([i \in DOMAIN g_projects |->
                LET refs == g_projects[i].project_references
                    kept == {j \in DOMAIN refs : Truthy(refs[j].include)}
                IN SelectSeq([j \in DOMAIN refs |-> <<i, j>>],
                             LAMBDA ij : ij[2] \in kept)])

\* C8: build_graph (dotnet) emits exactly one project-reference edge per
\* project reference with a non-empty include, in project order then
\* reference order; its target is the csproj path of the parsed descriptor
\* whose normalized path equals the include resolved against the referencing
\* project's directory, and the resolved path itself when there is none.
C8_OneEdgePerProjectReference ==
    (g_tool = "dotnet" /\ g_graph # NotBuilt) =>
       /\ Len(g_graph.project_references) = Len(RefPairs)
       /\ \A k \in DOMAIN RefPairs :
            LET p == g_projects[RefPairs[k][1]]
                pr == p.project_references[RefPairs[k][2]]
                e == g_graph.project_references[k]
                target == Resolve(JoinPath(Resolve(p.dir), pr.include))
                hits == {i \in DOMAIN g_projects :
                            Resolve(g_projects[i].csproj_path) = target}
            IN /\ e.from = p.csproj_path
               /\ e.name = pr.name
               /\ hits # {} => \E i \in hits : e.to = g_projects[i].csproj_path
               /\ hits = {} => e.to = target

\* C8 witness: a graph with two edges for the same include of one project
\* (resolved to a parsed descriptor) and an edge to an unresolved path.
C8_Witness ==
    /\ g_tool = "dotnet" /\ g_graph # NotBuilt
    /\ \E k1, k2, k3 \in DOMAIN g_graph.project_references :
         LET e1 == g_graph.project_references[k1]
             e2 == g_graph.project_references[k2]
             e3 == g_graph.project_references[k3]
         IN /\ k1 < k2 /\ e1 = e2 /\ e1.to = CsprojPath(2)
            /\ e1.from = CsprojPath(1)
            /\ \A i \in DOMAIN g_projects : e3.to # g_projects[i].csproj_path

(***************************************************************************)
(* Spec: main() of the two inspectors.  The file system is the input: what *)
(* discovery finds, what each descriptor holds, which source files each    *)
(* project directory lists and whether scanning one raises.                *)
(***************************************************************************)
Range(f) == {f[k] : k \in DOMAIN f}

Extend(r, more) ==
    [k \in DOMAIN r \cup DOMAIN more |->
        IF k \in DOMAIN more THEN more[k] ELSE r[k]]

Traceback == "traceback"

FileNames == <<"F1", "F2", "F3", "F4">>

TypeA == [kind |-> "class", name |-> "A"]

\* What parse_csharp_file / parse_java_file gives for a file: a namespace
\* (package) with its types, or an exception.
ScanRaises == [raises |-> TRUE]
ScanOutcomes ==
    {ScanRaises,
     [namespace |-> "N", types |-> <<TypeA>>],
     [namespace |-> None, types |-> <<>>]}

MainCsprojTexts ==
    {[form |-> "ok", xmlns |-> "", root |-> CsprojRoot(<<>>, <<>>, <<>>)],
     [form |-> "ok", xmlns |-> MsbuildNs,
      root |-> CsprojRoot(
          <<>>,
          <<El("ProjectReference", None,
               [NoAttrib EXCEPT !.Include = "../b/b.csproj"], <<>>)>>,
          <<El("PackageReference", None,
               [Include |-> "Lib", Version |-> "1.0"], <<>>)>>)],
     [form |-> "broken", xmlns |-> "", root |-> CsprojRoot(<<>>, <<>>, <<>>)]}

MainPomTexts ==
    {[form |-> "ok", xmlns |-> PomNs,
      root |-> PomRoot("g", "a", "1", <<>>, <<PomDepEl("g", "b", "2")>>)],
     [form |-> "ok", xmlns |-> PomNs,
      root |-> PomRoot("g", "b", "1", <<>>, <<>>)],
     [form |-> "ok", xmlns |-> PomNs,
      root |-> PomRoot("g", "a", Absent, <<>>, <<PomDepEl("g", "b", "2")>>)],
     [form |-> "dup_xmlns", xmlns |-> PomNs,
      root |-> PomRoot("g", "a", "1", <<>>, <<>>)],
     [form |-> "broken", xmlns |-> PomNs,
      root |-> PomRoot("g", "a", "1", <<>>, <<>>)]}

NoNamespaces == [k \in {} |-> <<>>]

\* ns_obj = namespaces.setdefault(ns, {"files": [], "types": []});
\* ns_obj["files"].append(path); ns_obj["types"] extended by types
AddToNamespace(nss, ns, path, types) ==
    LET old == IF ns \in DOMAIN nss THEN nss[ns]
               ELSE [files |-> <<>>, types |-> <<>>]
    IN [k \in DOMAIN nss \cup {ns} |->
           IF k = ns THEN [files |-> Append(old.files, path),
                           types |-> old.types \o types]
           ELSE nss[k]]

MainInit ==
    /\ tool \in {"dotnet", "maven"}
    /\ root_exists \in BOOLEAN
    /\ pc = "start"
    /\ descriptors = <<>> /\ idx = 0 /\ meta = <<>>
    /\ scanned = 0 /\ namespaces = NoNamespaces /\ files = <<>>
    /\ projects = <<>> /\ indices = NotBuilt /\ relationships = NotBuilt
    /\ report = <<>> /\ exit_code = -1 /\ stderr = <<>>
    /\ failed_descriptors = {} /\ raised_files = {}
    /\ SanIdle /\ ParseIdle /\ GraphIdle /\ UnitIdle

\* if not root.exists(): print(...); sys.exit(2)
RootMissing(t) ==
    /\ tool = t /\ pc = "start" /\ ~root_exists
    /\ stderr' = Append(stderr, [msg |-> "Error: root directory does not exist"])
    /\ exit_code' = 2
    /\ pc' = "exit"
    /\ UNCHANGED <<tool, root_exists, descriptors, idx, meta, scanVars,
                   projects, indices, relationships, report,
                   failed_descriptors, raised_files, nonMainVars>>

DotnetRootMissing == RootMissing("dotnet")
MavenRootMissing == RootMissing("maven")

\* csprojs = discover_csprojs(root) / poms = discover_poms(root), and the
\* warning when nothing is found
Discover(t, found) ==
    /\ tool = t /\ pc = "start" /\ root_exists
    /\ descriptors' = found
    /\ stderr' = IF found = <<>>
                 THEN Append(stderr, [msg |-> "Warning: no descriptors found"])
                 ELSE stderr
    /\ pc' = "loop"
    /\ UNCHANGED <<tool, root_exists, idx, meta, scanVars, projects, indices,
                   relationships, report, exit_code,
                   failed_descriptors, raised_files, nonMainVars>>

DotnetDiscover ==
    \E n \in 0..MaxDescriptors : Discover("dotnet", [k \in 1..n |-> CsprojPath(k)])

MavenDiscover ==
    \E n \in 0..MaxDescriptors : Discover("maven", [k \in 1..n |-> PomPath(k)])

InLoop(t) == tool = t /\ pc = "loop" /\ idx < Len(descriptors)

\* Mutant: the failed descriptor is kept in projects as an error record.
ParseFails_KeptInline(path) ==
    /\ stderr' = Append(stderr, [msg |-> "Error parsing descriptor",
                                 path |-> path])
    /\ failed_descriptors' = failed_descriptors \cup {path}
    /\ projects' = Append(projects,
                          [csproj_path |-> path, pom_path |-> path,
                           dir |-> SubSeq(path, 1, Len(path) - 1),
                           project_references |-> <<>>,
                           package_references |-> <<>>,
                           groupId |-> None, artifactId |-> None,
                           version |-> None,
                           ga |-> NoKey, gav |-> NoKey, parent |-> NoParent,
                           modules |-> <<>>, dependencies |-> <<>>,
                           error |-> Traceback])
    /\ idx' = idx + 1
    /\ UNCHANGED <<tool, pc, root_exists, descriptors, meta, scanVars,
                   indices, relationships, report, exit_code,
                   raised_files, nonMainVars>>

\* Mutant: the parse exception is not caught and ends the process.
ParseFails_Uncaught(path) ==
    /\ failed_descriptors' = failed_descriptors \cup {path}
    /\ exit_code' = 1
    /\ pc' = "exit"
    /\ UNCHANGED <<tool, root_exists, descriptors, idx, meta, scanVars,
                   projects, indices, relationships, report, stderr,
                   raised_files, nonMainVars>>

\* except Exception: print(...); traceback.print_exc(); continue
ParseFails(path) ==
    /\ stderr' = Append(stderr, [msg |-> "Error parsing descriptor",
                                 path |-> path])
    /\ failed_descriptors' = failed_descriptors \cup {path}
    /\ idx' = idx + 1
    /\ UNCHANGED <<tool, pc, root_exists, descriptors, meta, scanVars,
                   projects, indices, relationships, report, exit_code,
                   raised_files, nonMainVars>>

\* meta = parse_...(descriptor) returned; summarize_sources(meta["dir"]) starts
ParseOk(parsed_meta) ==
    /\ meta' = parsed_meta
    /\ pc' = "scan"
    /\ scanned' = 0 /\ namespaces' = NoNamespaces /\ files' = <<>>
    /\ UNCHANGED <<tool, root_exists, descriptors, idx, projects, indices,
                   relationships, report, exit_code, stderr,
                   failed_descriptors, raised_files, nonMainVars>>

DotnetParseFails ==
    /\ InLoop("dotnet")
    /\ \E text \in MainCsprojTexts :
         /\ Raised(parse_csproj(descriptors[idx + 1], text))
         /\ ParseFails(descriptors[idx + 1])

DotnetParseOk ==
    /\ InLoop("dotnet")
    /\ \E text \in MainCsprojTexts :
         /\ ~Raised(parse_csproj(descriptors[idx + 1], text))
         /\ ParseOk(parse_csproj(descriptors[idx + 1], text))

MavenParseFails ==
    /\ InLoop("maven")
    /\ \E text \in MainPomTexts :
         /\ Raised(parse_pom(descriptors[idx + 1], text))
         /\ ParseFails(descriptors[idx + 1])

MavenParseOk ==
    /\ InLoop("maven")
    /\ \E text \in MainPomTexts :
         /\ ~Raised(parse_pom(descriptors[idx + 1], text))
         /\ ParseOk(parse_pom(descriptors[idx + 1], text))

\* ---- summarize_sources (dotnet): one loop iteration per action

Scanning(t) == tool = t /\ pc = "scan" /\ scanned < MaxFiles

DotnetSourceDirs == {<<>>, <<"obj">>, <<"sub">>}

DotnetSourcePath(sub) == meta.dir \o sub \o <<FileNames[scanned + 1]>>

\* if "obj" in cs.parts or "bin" in cs.parts
InBuildOutput(path) == "obj" \in Range(path) \/ "bin" \in Range(path)

\* Mutant: the error summary of a file whose scan raised carries a type.
DotnetFileSummary_Typed(path, outcome) ==
    IF outcome = ScanRaises
    THEN [path |-> path, error |-> Traceback, types |-> <<TypeA>>,
          namespace |-> None]
    ELSE [path |-> path, namespace |-> outcome.namespace,
          types |-> outcome.types]

DotnetFileSummary(path, outcome) ==
    IF outcome = ScanRaises
    THEN [path |-> path, error |-> Traceback, types |-> <<>>,
          namespace |-> None]
    ELSE [path |-> path, namespace |-> outcome.namespace,
          types |-> outcome.types]

DotnetSkipFile ==
    /\ Scanning("dotnet")
    /\ \E sub \in DotnetSourceDirs :
         InBuildOutput(DotnetSourcePath(sub))
    /\ scanned' = scanned + 1
    /\ UNCHANGED <<tool, pc, root_exists, descriptors, idx, meta, namespaces,
                   files, projects, indices, relationships, report,
                   exit_code, stderr, failed_descriptors, raised_files,
                   nonMainVars>>

DotnetScanFile ==
    /\ Scanning("dotnet")
    /\ \E sub \in DotnetSourceDirs, outcome \in ScanOutcomes :
         LET path == DotnetSourcePath(sub)
             summary == DotnetFileSummary(path, outcome)
         IN /\ ~InBuildOutput(path)
            /\ files' = Append(files, summary)
            /\ namespaces' = AddToNamespace(namespaces,
                                            Or(summary.namespace, "(global)"),
                                            summary.path, summary.types)
            /\ raised_files' = IF outcome = ScanRaises
                               THEN raised_files \cup {path}
                               ELSE raised_files
    /\ scanned' = scanned + 1
    /\ UNCHANGED <<tool, pc, root_exists, descriptors, idx, meta, projects,
                   indices, relationships, report, exit_code, stderr,
                   failed_descriptors, nonMainVars>>

\* ---- summarize_sources (maven)

MavenSourceDirs == {<<"src", "main", "java">>, <<"src", "test", "java">>}

MavenSourcePath(src) == meta.dir \o src \o <<FileNames[scanned + 1]>>

\* DEFAULT_SOURCE_DIRS is walked in order: src/main/java, then src/test/java
TestRootReached ==
    \E k \in DOMAIN files : files[k].path[Len(meta.dir) + 2] = "test"

MavenFileSummary(path, outcome) ==
    IF outcome = ScanRaises
    THEN [path |-> path, error |-> Traceback]
    ELSE [path |-> path, package |-> outcome.namespace,
          types |-> outcome.types]

\* summary.get(key) / summary.get(key, default)
Get(summary, key, default) ==
    IF key \in DOMAIN summary THEN summary[key] ELSE default

MavenScanFile ==
    /\ Scanning("maven")
    /\ \E src \in MavenSourceDirs, outcome \in ScanOutcomes :
         LET path == MavenSourcePath(src)
             summary == MavenFileSummary(path, outcome)
         IN /\ TestRootReached => src[2] = "test"
            /\ files' = Append(files, summary)
            /\ namespaces' = AddToNamespace(namespaces,
                                            Or(Get(summary, "package", None),
                                               "(default)"),
                                            Get(summary, "path", None),
                                            Get(summary, "types", <<>>))
            /\ raised_files' = IF outcome = ScanRaises
                               THEN raised_files \cup {path}
                               ELSE raised_files
    /\ scanned' = scanned + 1
    /\ UNCHANGED <<tool, pc, root_exists, descriptors, idx, meta, projects,
                   indices, relationships, report, exit_code, stderr,
                   failed_descriptors, nonMainVars>>

\* ---- back in main(): meta["source_summary"] = ...; projects.append(meta)

AppendProject(t, src_summary, more) ==
    /\ tool = t /\ pc = "scan"
    /\ projects' = Append(projects,
                          Extend(meta, [source_summary |-> src_summary]
                                           @@ more))
    /\ idx' = idx + 1
    /\ pc' = "loop"
    /\ UNCHANGED <<tool, root_exists, descriptors, meta, scanVars, indices,
                   relationships, report, exit_code, stderr,
                   failed_descriptors, raised_files, nonMainVars>>

\* summarize_sources returns {"namespaces": ..., "file_count": len(files)}
DotnetSummarized ==
    AppendProject("dotnet",
                  [namespaces |-> namespaces, file_count |-> Len(files)],
                  <<>>)

\* summarize_sources raised: main keeps an error summary
DotnetSummarizeRaises ==
    AppendProject("dotnet",
                  [error |-> Traceback, namespaces |-> NoNamespaces,
                   file_count |-> 0],
                  <<>>)

MavenIds == [ga |-> ga_key(meta.groupId, meta.artifactId),
             gav |-> gav_key(meta.groupId, meta.artifactId, meta.version)]

MavenSummarized ==
    AppendProject("maven",
                  [packages |-> namespaces, file_count |-> Len(files)],
                  MavenIds)

MavenSummarizeRaises ==
    AppendProject("maven",
                  [error |-> Traceback, packages |-> NoNamespaces,
                   file_count |-> 0],
                  MavenIds)

\* ---- relationships = build_graph(projects), after the loop

\* Mutant: the graph is built as soon as one descriptor has been consumed.
LoopDone_Early(t) == tool = t /\ pc = "loop" /\ idx >= 1

LoopDone(t) == tool = t /\ pc = "loop" /\ ~(idx < Len(descriptors))

DotnetBuildGraph ==
    /\ LoopDone("dotnet")
    /\ indices' = [by_path |-> by_path(projects)]
    /\ relationships' = build_graph_dotnet(projects)
    /\ pc' = "write"
    /\ UNCHANGED <<tool, root_exists, descriptors, idx, meta, scanVars,
                   projects, report, exit_code, stderr,
                   failed_descriptors, raised_files, nonMainVars>>

MavenBuildGraph ==
    /\ LoopDone("maven")
    /\ indices' = [by_gav |-> by_gav(projects), by_ga |-> by_ga(projects)]
    /\ relationships' = build_graph_maven(projects)
    /\ pc' = "write"
    /\ UNCHANGED <<tool, root_exists, descriptors, idx, meta, scanVars,
                   projects, report, exit_code, stderr,
                   failed_descriptors, raised_files, nonMainVars>>

\* payload (generated_at, a wall-clock field, left out)
Payload ==
    [root_dir |-> <<"ws">>,
     project_count |-> Len(projects),
     projects |-> projects,
     relationships |-> relationships]

\* out_path.write_text(json.dumps(payload, ...)); print("Wrote ..."); main
\* returns and the process exits with status 0
WriteReport(t) ==
    /\ tool = t /\ pc = "write"
    /\ report' = Append(report, Payload)
    /\ exit_code' = 0
    /\ pc' = "exit"
    /\ UNCHANGED <<tool, root_exists, descriptors, idx, meta, scanVars,
                   projects, indices, relationships, stderr,
                   failed_descriptors, raised_files, nonMainVars>>

DotnetWriteReport == WriteReport("dotnet")
MavenWriteReport == WriteReport("maven")

Next ==
    \/ DotnetRootMissing \/ DotnetDiscover
    \/ DotnetParseFails \/ DotnetParseOk
    \/ DotnetSkipFile \/ DotnetScanFile
    \/ DotnetSummarized \/ DotnetSummarizeRaises
    \/ DotnetBuildGraph \/ DotnetWriteReport
    \/ MavenRootMissing \/ MavenDiscover
    \/ MavenParseFails \/ MavenParseOk
    \/ MavenScanFile
    \/ MavenSummarized \/ MavenSummarizeRaises
    \/ MavenBuildGraph \/ MavenWriteReport

Spec == MainInit /\ [][Next]_vars

\* main() is sequential code: whenever a step is possible it is taken.
FairSpec == Spec /\ WF_vars(Next)

(***************************************************************************)
(* Claims about main() (Spec, FairSpec).                                   *)
(***************************************************************************)
Written == pc = "exit" /\ report # <<>>

DescriptorPath(p) ==
    IF "csproj_path" \in DOMAIN p THEN p.csproj_path ELSE p.pom_path

\* The per-file records a payload carries in its projects' source summaries.
FileRecords(payload) ==
    UNION {Range(Get(payload.projects[i].source_summary, "files", <<>>)) :
              i \in DOMAIN payload.projects}

\* C5 (as claimed): for every source file whose scan raised, the written
\* report holds a record with that file's path and the diagnostic.
C5_ScanErrorInReport ==
    Written =>
       \A f \in raised_files :
          \E r \in FileRecords(report[1]) :
             /\ r.path = f
             /\ "error" \in DOMAIN r /\ Truthy(r.error)

C9_AllProjectsIndexed ==
    relationships # NotBuilt =>
       /\ idx = Len(descriptors) /\ pc \in {"write", "exit"}
       /\ \A i \in DOMAIN projects :
            \/ /\ tool = "dotnet"
               /\ projects[i] \in Range(indices.by_path)
            \/ /\ tool = "maven"
               /\ projects[i] \in Range(indices.by_ga)
                                    \cup Range(indices.by_gav)

\* C9 (amended): the graph and its indices are built only after the loop has
\* consumed every discovered descriptor (each one parsed and summarised, or
\* skipped), and the indices are built from all parsed projects: every
\* parsed .csproj is by_path's value at its normalized path, and the
\* group:artifact (group:artifact:version) of every parsed pom that has one
\* is a key of by_ga (by_gav).
C9_GraphAfterAllParsed ==
    /\ (relationships = NotBuilt) = (indices = NotBuilt)
    /\ relationships # NotBuilt =>
         /\ idx = Len(descriptors) /\ pc \in {"write", "exit"}
         /\ Len(projects) + Cardinality(failed_descriptors) = Len(descriptors)
         /\ \A i \in DOMAIN projects :
              \/ /\ tool = "dotnet"
                 /\ Resolve(projects[i].csproj_path) \in DOMAIN indices.by_path
                 /\ indices.by_path[Resolve(projects[i].csproj_path)]
                      = projects[i]
              \/ /\ tool = "maven"
                 /\ ProjectGa(projects[i]) # NoKey =>
                       ProjectGa(projects[i]) \in DOMAIN indices.by_ga
                 /\ ProjectGav(projects[i]) # NoKey =>
                       ProjectGav(projects[i]) \in DOMAIN indices.by_gav

\* C9 witness: a graph built over two parsed projects after a loop of two
\* descriptors, the first project referring to the second.
C9_Witness ==
    /\ relationships # NotBuilt
    /\ Len(descriptors) = 2 /\ Len(projects) = 2
    /\ \/ /\ tool = "dotnet"
          /\ \E k \in DOMAIN relationships.project_references :
                relationships.project_references[k].to = CsprojPath(2)
       \/ /\ tool = "maven"
          /\ \E k \in DOMAIN relationships.dependencies :
                relationships.dependencies[k].to = <<"g", "b", "1">>

GroupsDefining(tag) ==
    SelectSeq(descriptor.root.children,
              LAMBDA pg : /\ pg.tag = "PropertyGroup"
                          /\ \E k \in DOMAIN pg.children :
                                pg.children[k].tag = tag)

\* The trimmed text of the first tag element inside one property group, None
\* when it is empty.
GroupValue(pg, tag) ==
    LET k == CHOOSE k \in DOMAIN pg.children :
                /\ pg.children[k].tag = tag
                /\ \A j \in DOMAIN pg.children :
                      pg.children[j].tag = tag => k <= j
    IN IF Strip(pg.children[k].text) = "" THEN None
       ELSE Strip(pg.children[k].text)

CsprojParsedOk ==
    /\ descriptor.kind = "csproj"
    /\ parsed["declared"] # Pending
    /\ ~Raised(parsed["declared"])

\* C15 (as claimed): when two or more top-level property groups define
\* AssemblyName, parse_csproj reports the first group's value, whatever it
\* is, and no later group's value in its place.
C15_FirstGroupWins ==
    (CsprojParsedOk /\ Len(GroupsDefining("AssemblyName")) >= 2) =>
       parsed["declared"].assembly_name
          = GroupValue(GroupsDefining("AssemblyName")[1], "AssemblyName")

\* C15 (amended): parse_csproj reports the value of the first group, in
\* document order, whose AssemblyName is not empty after trimming; groups
\* with an empty value are passed over, and once a group has given a
\* non-empty value no later group replaces it.
C15_FirstNonEmptyWins ==
    CsprojParsedOk =>
       LET gs == SelectSeq(GroupsDefining("AssemblyName"),
                           LAMBDA pg :
                              GroupValue(pg, "AssemblyName") # None)
       IN parsed["declared"].assembly_name
             = IF gs = <<>> THEN None
               ELSE GroupValue(gs[1], "AssemblyName")

\* C15 witness: two property groups give different non-empty AssemblyName
\* values and the first one is reported.
C15_Witness ==
    /\ CsprojParsedOk
    /\ Len(GroupsDefining("AssemblyName")) = 2
    /\ GroupValue(GroupsDefining("AssemblyName")[1], "AssemblyName") = "x"
    /\ GroupValue(GroupsDefining("AssemblyName")[2], "AssemblyName") = "y"
    /\ parsed["declared"].assembly_name = "x"

\* Both scans run on to their return.
SanFairSpec == SanSpec /\ WF_vars(SanNext)

\* The scan is inside a comment or a literal.
InLiteral(m) ==
    \/ m.in_sl_comment \/ m.in_ml_comment \/ m.in_str \/ m.in_char
    \/ ("in_verbatim_str" \in DOMAIN m /\ m.in_verbatim_str)

\* What a step from m to m2 emitted, with the offsets it was emitted at.
Emitted(m, m2) == (Len(m.result) + 1)..Len(m2.result)

\* A blanked character: a blank, or the newline of the input kept in place.
Blanked(out, k) == out[k] = " " \/ (out[k] = NL /\ code[k] = NL)

\* Everything a step emits while opening, inside or closing a comment or
\* literal is blanked.
BlanksLiteral(m, m2) ==
    (InLiteral(m) \/ InLiteral(m2)) =>
       \A k \in Emitted(m, m2) : Blanked(m2.result, k)

\* C19: on every input both sanitizers reach their return, reading no
\* character past the end of the input, also when the input ends inside a
\* comment or literal or with a lone backslash, "/", "@" or "*"; from the
\* marker that opens a comment or literal on, every character is blanked,
\* so an unterminated one leaves the rest of the text blanked.
C19_TerminatesAndBlanksRest ==
    /\ <>(cs.returned /\ java.returned)
    /\ [](cs.i <= Len(code) /\ java.i <= Len(code))
    /\ [][BlanksLiteral(cs, cs') /\ BlanksLiteral(java, java')]_vars

\* C19 witness: both scans returned inside an unterminated block comment
\* that holds a newline and ends with a lone "*".
C19_Witness ==
    /\ cs.returned /\ java.returned
    /\ cs.in_ml_comment /\ java.in_ml_comment
    /\ code = <<"/", "*", NL, "*">>
    /\ cs.result = <<" ", " ", NL, " ">>
    /\ java.result = <<" ", " ", NL, " ">>

\* One step of a scan that starts inside a string literal: a backslash
\* with a character after it is consumed with that character as two blanks
\* and the scan stays in the string; otherwise one character is consumed as
\* one blank and the string is left exactly when that character is the
\* quote; no comment or other literal is entered.
StringStep(m, m2) ==
    (m.in_str /\ m2.i # m.i) =>
       LET ch == code[m.i + 1]
           unit == ch = BS /\ m.i + 1 < Len(code)
       IN /\ m2.i = m.i + (IF unit THEN 2 ELSE 1)
          /\ Len(m2.result) = m2.i
          /\ \A k \in Emitted(m, m2) : m2.result[k] = " "
          /\ m2.in_str <=> (unit \/ ch # DQ)
          /\ ~m2.in_sl_comment /\ ~m2.in_ml_comment /\ ~m2.in_char
          /\ "in_verbatim_str" \in DOMAIN m2 => ~m2.in_verbatim_str

\* C20: inside a string literal an escape (backslash and the following
\* character) is one blanked two-character unit that keeps the string
\* state, the state is left only at the first quote outside such a unit,
\* and "//" or "/*" inside the literal starts no comment.
C20_EscapeKeepsStringState ==
    [][StringStep(cs, cs') /\ StringStep(java, java')]_vars

\* C20 witness: the literal "\"" scanned to its closing quote: the
\* escaped quote did not end it.
C20_Witness ==
    /\ cs.returned /\ java.returned
    /\ code = <<DQ, BS, DQ, DQ>>
    /\ ~cs.in_str /\ ~java.in_str
    /\ cs.result = <<" ", " ", " ", " ">>
    /\ java.result = <<" ", " ", " ", " ">>

(***************************************************************************)
(* SumSpec: summarize_sources of the two inspectors over one project.  The *)
(* input is the project directory and the listing rglob yields under it:   *)
(* for each file its path relative to the project directory and what       *)
(* parse_csharp_file / parse_java_file does with it.                       *)
(***************************************************************************)
MaxListing == 2

TypeB == [kind |-> "class", name |-> "B"]

SumOutcomes == ScanOutcomes \cup {[namespace |-> None, types |-> <<TypeB>>]}

SumProjectDirs == {<<"ws", "a">>, <<"home", "bin", "a">>}

\* rglob("*.cs") under project_dir
DotnetRels == {<<"F.cs">>, <<"obj", "G.cs">>, <<"sub", "H.cs">>}

\* rglob("*.java") under project_dir / src/main/java, then src/test/java
MavenRels == {<<"src", "main", "java", "F.java">>,
              <<"src", "main", "java", "obj", "G.java">>,
              <<"src", "test", "java", "T.java">>}

\* DEFAULT_SOURCE_DIRS is walked in order, src/test/java last
InTestRoot(rel) == Len(rel) >= 2 /\ rel[2] = "test"

Listings(rels) ==
    {l \in SeqsUpTo([rel : rels, outcome : SumOutcomes], MaxListing) :
        /\ \A j, k \in DOMAIN l : j # k => l[j].rel # l[k].rel
        /\ \A j, k \in DOMAIN l :
              (j < k /\ InTestRoot(l[j].rel)) => InTestRoot(l[k].rel)}

SumPath(e) == project_dir \o e.rel

DefaultGroup == IF s_tool = "dotnet" THEN "(global)" ELSE "(default)"

SumInit ==
    /\ s_tool \in {"dotnet", "maven"}
    /\ project_dir \in SumProjectDirs
    /\ listing \in Listings(IF s_tool = "dotnet" THEN DotnetRels
                            ELSE MavenRels)
    /\ s_i = 0 /\ s_namespaces = NoNamespaces /\ s_files = <<>>
    /\ s_parsed = <<>> /\ s_result = Pending
    /\ PipelineIdle /\ ExtractIdle /\ SplitIdle /\ AttrIdle /\ ParamIdle

SumLooping(t) == s_tool = t /\ s_result = Pending /\ s_i < Len(listing)

\* if "obj" in cs.parts or "bin" in cs.parts: continue
SumDotnetSkip ==
    /\ SumLooping("dotnet")
    /\ InBuildOutput(SumPath(listing[s_i + 1]))
    /\ s_i' = s_i + 1
    /\ UNCHANGED <<s_tool, project_dir, listing, s_namespaces, s_files,
                   s_parsed, s_result, nonSumVars>>

\* try: summary = parse_csharp_file(cs) except Exception: summary = {...};
\* files.append(summary); namespaces.setdefault(...) ...
SumDotnetScan ==
    /\ SumLooping("dotnet")
    /\ LET e == listing[s_i + 1]
           summary == DotnetFileSummary(SumPath(e), e.outcome)
       IN /\ ~InBuildOutput(SumPath(e))
          /\ s_parsed' = Append(s_parsed, SumPath(e))
          /\ s_files' = Append(s_files, summary)
          /\ s_namespaces' = AddToNamespace(s_namespaces,
                                            Or(summary.namespace, "(global)"),
                                            summary.path, summary.types)
    /\ s_i' = s_i + 1
    /\ UNCHANGED <<s_tool, project_dir, listing, s_result, nonSumVars>>

SumMavenScan ==
    /\ SumLooping("maven")
    /\ LET e == listing[s_i + 1]
           summary == MavenFileSummary(SumPath(e), e.outcome)
       IN /\ s_parsed' = Append(s_parsed, SumPath(e))
          /\ s_files' = Append(s_files, summary)
          /\ s_namespaces' = AddToNamespace(s_namespaces,
                                            Or(Get(summary, "package", None),
                                               "(default)"),
                                            Get(summary, "path", None),
                                            Get(summary, "types", <<>>))
    /\ s_i' = s_i + 1
    /\ UNCHANGED <<s_tool, project_dir, listing, s_result, nonSumVars>>

\* return {"namespaces" / "packages": ..., "file_count": len(files)}
SumReturn ==
    /\ s_tool \in {"dotnet", "maven"}
    /\ s_result = Pending /\ ~(s_i < Len(listing))
    /\ s_result' = [groups |-> s_namespaces, file_count |-> Len(s_files)]
    /\ UNCHANGED <<s_tool, project_dir, listing, s_i, s_namespaces, s_files,
                   s_parsed, nonSumVars>>

SumNext == SumDotnetSkip \/ SumDotnetScan \/ SumMavenScan \/ SumReturn

SumSpec == SumInit /\ [][SumNext]_vars

\* The listing entries parse_* was given up to position k, in order.
RECURSIVE ScannedUpTo(_)
ScannedUpTo(k) ==
    IF k = 0 THEN <<>>
    ELSE IF s_tool = "dotnet" /\ InBuildOutput(SumPath(listing[k]))
    THEN ScannedUpTo(k - 1)
    ELSE Append(ScannedUpTo(k - 1), listing[k])

\* The types the scanned files that parsed give to group ns, in order; a
\* file whose scan raised gives none.
RECURSIVE TypesOfParsed(_, _)
TypesOfParsed(entries, ns) ==
    IF entries = <<>> THEN <<>>
    ELSE LET e == Head(entries)
         IN (IF e.outcome # ScanRaises
                /\ Or(e.outcome.namespace, DefaultGroup) = ns
             THEN e.outcome.types ELSE <<>>)
            \o TypesOfParsed(Tail(entries), ns)

\* C11: a source file whose scan raises does not end the loop: every later
\* file of the listing is still handed to the parser, the failed file adds
\* no type to any namespace/package group, and the groups hold exactly the
\* types of the files that parsed, in order, at every step and at return.
C11_ScanFailureIsolated ==
    /\ s_tool \in {"dotnet", "maven"} =>
          /\ s_parsed = [k \in DOMAIN ScannedUpTo(s_i) |->
                            SumPath(ScannedUpTo(s_i)[k])]
          /\ \A ns \in DOMAIN s_namespaces :
                s_namespaces[ns].types = TypesOfParsed(ScannedUpTo(s_i), ns)
    /\ (s_tool \in {"dotnet", "maven"} /\ s_result # Pending) =>
          /\ s_i = Len(listing)
          /\ s_result.groups = s_namespaces
          /\ s_result.file_count = Len(ScannedUpTo(Len(listing)))

\* C11 witness: summarize_sources has returned after a file that raised was
\* followed by a file that parsed with a type in the same group.
C11_Witness ==
    /\ s_result # Pending /\ Len(s_parsed) >= 2
    /\ \E k \in 1..(Len(listing) - 1) :
          /\ listing[k].outcome = ScanRaises
          /\ SumPath(listing[k]) \in Range(s_parsed)
          /\ listing[k + 1].outcome = [namespace |-> None, types |-> <<TypeB>>]
          /\ SumPath(listing[k + 1]) \in Range(s_parsed)
          /\ s_result.groups[DefaultGroup].types = <<TypeB>>

\* C12 (as claimed): a file of the listing is skipped if and only if a
\* directory between the project directory and the file is named bin or obj,
\* whatever the directories above the project directory are called.
C12_SkipsOnlyBuildOutput ==
    (s_tool = "dotnet" /\ s_result # Pending) =>
       \A k \in DOMAIN listing :
          (SumPath(listing[k]) \notin Range(s_parsed))
             <=> InBuildOutput(listing[k].rel)

(***************************************************************************)
(* ExtractSpec: the member attribution of parse_csharp_file and            *)
(* parse_java_file (the same code in both).  The input is what the three   *)
(* finditer calls yield over the sanitized text: for each match its start  *)
(* offset and the name it captured, in increasing offset order.            *)
(***************************************************************************)
MaxOffset == 3      \* greatest offset of the sanitized text
MaxTypes == 2       \* TYPE_RE matches
MaxMembers == 1     \* METHOD_RE matches, and CTOR_RE matches

Offsets == 0..MaxOffset

\* finditer: matches at strictly increasing start offsets
Matches(names, n) ==
    {ms \in SeqsUpTo([pos : Offsets, name : names], n) :
        \A j, k \in DOMAIN ms : j < k => ms[j].pos < ms[k].pos}

NoIndex == 0

\* boundaries / locs: [(m.start(), name) ...], sorted, plus the sentinel
\* (len(stripped) + 1, None)
Boundaries ==
    type_ms \o <<[pos |-> stripped_len + 1, name |-> None]>>

\* Mutant: the first type whose header starts at or before pos.
owning_type_index_First(pos) ==
    LET hits == {i \in 1..(Len(Boundaries) - 1) : Boundaries[i].pos <= pos}
    IN IF hits = {} THEN NoIndex
       ELSE CHOOSE i \in hits : \A j \in hits : i <= j

\* for i in range(len(locs) - 1): if locs[i][0] <= pos < locs[i+1][0]: return i
owning_type_index(pos) ==
    LET hits == {i \in 1..(Len(Boundaries) - 1) :
                    Boundaries[i].pos <= pos /\ pos < Boundaries[i + 1].pos}
    IN IF hits = {} THEN NoIndex
       ELSE CHOOSE i \in hits : \A j \in hits : i <= j

\* Mutant: every constructor-shaped match is kept.
CtorKept_Any(ctor_name, owning_type_name) == TRUE

\* if ctor_name != owning_type_name: continue
CtorKept(ctor_name, owning_type_name) == ctor_name = owning_type_name

ExtractInit ==
    /\ stripped_len = MaxOffset + 1
    /\ type_ms \in Matches({"A", "B"}, MaxTypes)
    /\ method_ms \in Matches({"f"}, MaxMembers)
    /\ ctor_ms \in Matches({"A", "B"}, MaxMembers)
    /\ x_types = <<>> /\ x_pc = "types" /\ x_k = 0
    /\ PipelineIdle /\ SumIdle /\ SplitIdle /\ AttrIdle /\ ParamIdle

\* for m in TYPE_RE.finditer(stripped): types.append(type_info)
XType ==
    /\ x_pc = "types" /\ x_k < Len(type_ms)
    /\ x_types' = Append(x_types, [name |-> type_ms[x_k + 1].name,
                                   methods |-> <<>>, constructors |-> <<>>])
    /\ x_k' = x_k + 1
    /\ UNCHANGED <<stripped_len, type_ms, method_ms, ctor_ms, x_pc,
                   nonExtractVars>>

\* if types: ... else straight to the return
XTypesDone ==
    /\ x_pc = "types" /\ x_k = Len(type_ms)
    /\ x_pc' = IF x_types # <<>> THEN "methods" ELSE "done"
    /\ x_k' = 0
    /\ UNCHANGED <<stripped_len, type_ms, method_ms, ctor_ms, x_types,
                   nonExtractVars>>

\* for mm in METHOD_RE.finditer(stripped): one iteration
XMethod ==
    /\ x_pc = "methods" /\ x_k < Len(method_ms)
    /\ LET mm == method_ms[x_k + 1]
           owner == owning_type_index(mm.pos)
       IN x_types' =
             IF owner = NoIndex \/ owner > Len(x_types) THEN x_types
             ELSE [x_types EXCEPT
                     ![owner].methods = Append(@, [name |-> mm.name])]
    /\ x_k' = x_k + 1
    /\ UNCHANGED <<stripped_len, type_ms, method_ms, ctor_ms, x_pc,
                   nonExtractVars>>

XMethodsDone ==
    /\ x_pc = "methods" /\ x_k = Len(method_ms)
    /\ x_pc' = "ctors" /\ x_k' = 0
    /\ UNCHANGED <<stripped_len, type_ms, method_ms, ctor_ms, x_types,
                   nonExtractVars>>

\* for mc in CTOR_RE.finditer(stripped): one iteration
XCtor ==
    /\ x_pc = "ctors" /\ x_k < Len(ctor_ms)
    /\ LET mc == ctor_ms[x_k + 1]
           owner == owning_type_index(mc.pos)
       IN x_types' =
             IF owner = NoIndex \/ owner > Len(x_types) THEN x_types
             ELSE IF ~CtorKept(mc.name, x_types[owner].name) THEN x_types
             ELSE [x_types EXCEPT
                     ![owner].constructors = Append(@, [name |-> mc.name])]
    /\ x_k' = x_k + 1
    /\ UNCHANGED <<stripped_len, type_ms, method_ms, ctor_ms, x_pc,
                   nonExtractVars>>

\* return {"path": ..., "namespace" / "package": ..., "types": types}
XReturn ==
    /\ x_pc = "ctors" /\ x_k = Len(ctor_ms)
    /\ x_pc' = "done"
    /\ UNCHANGED <<stripped_len, type_ms, method_ms, ctor_ms, x_types, x_k,
                   nonExtractVars>>

ExtractNext ==
    XType \/ XTypesDone \/ XMethod \/ XMethodsDone \/ XCtor \/ XReturn

ExtractSpec == ExtractInit /\ [][ExtractNext]_vars

\* The header offset interval of type i: [start_i, start_{i+1}), the last
\* one reaching past the end of the text.
InInterval(pos, i) ==
    /\ type_ms[i].pos <= pos
    /\ i < Len(type_ms) => pos < type_ms[i + 1].pos

\* The names of the matches of ms that lie in type i's interval and are in
\* names, in match order.
NamesIn(ms, i, names) ==
    LET sel == SelectSeq(ms, LAMBDA m : InInterval(m.pos, i)
                                          /\ m.name \in names)
    IN [k \in DOMAIN sel |-> [name |-> sel[k].name]]

\* C13: when the file has a type, every method match is in the methods list
\* of exactly the type whose interval holds its offset (the type with the
\* greatest header start <= the offset), a match before the first header is
\* in no list, and no constructor is recorded outside its offset's interval.
C13_MemberOwnedByInterval ==
    x_pc = "done" =>
       \A i \in DOMAIN x_types :
          /\ x_types[i].methods = NamesIn(method_ms, i, {"f"})
          /\ \A c \in DOMAIN x_types[i].constructors :
                \E k \in DOMAIN ctor_ms :
                   /\ ctor_ms[k].name = x_types[i].constructors[c].name
                   /\ InInterval(ctor_ms[k].pos, i)

\* C13 witness: two types A then B, a method after B's header.
C13_Witness ==
    /\ x_pc = "done" /\ Len(x_types) = 2
    /\ x_types[1].name = "A" /\ x_types[2].name = "B"
    /\ x_types[1].methods = <<>>
    /\ x_types[2].methods = <<[name |-> "f"]>>

\* C14: every record of a type's constructors list carries the type's name,
\* and the list holds exactly the constructor-shaped matches of the type's
\* interval that carry its name: a match named otherwise is in no list.
C14_CtorNamedAsOwner ==
    /\ \A i \in DOMAIN x_types :
          \A c \in DOMAIN x_types[i].constructors :
             x_types[i].constructors[c].name = x_types[i].name
    /\ x_pc = "done" =>
          \A i \in DOMAIN x_types :
             x_types[i].constructors
                = NamesIn(ctor_ms, i, {x_types[i].name})

\* C14 witness: a constructor-shaped match named B inside type A was dropped.
C14_Witness ==
    /\ x_pc = "done" /\ Len(x_types) >= 1
    /\ x_types[1].name = "A"
    /\ \E k \in DOMAIN ctor_ms :
          ctor_ms[k].name = "B" /\ owning_type_index(ctor_ms[k].pos) = 1
    /\ x_types[1].constructors = <<>>

(***************************************************************************)
(* SplitSpec: split_params (the same code in both inspectors), one loop    *)
(* iteration per step.  Strings are sequences of characters.               *)
(***************************************************************************)
MaxParamLen == 5

ParamChars == {"<", ">", ",", " ", "a"}

\* "Map<K, V> a, int b"
ParamExample ==
    <<"M", "a", "p", "<", "K", ",", " ", "V", ">", " ", "a", ",", " ",
      "i", "n", "t", " ", "b">>

ParamBlocks == SeqsUpTo(ParamChars, MaxParamLen) \cup {ParamExample}

\* str.strip() over the characters of the model
StripChars(s) ==
    LET ks == {k \in DOMAIN s : s[k] # " "}
    IN IF ks = {} THEN <<>>
       ELSE SubSeq(s, CHOOSE k \in ks : \A j \in ks : k <= j,
                      CHOOSE k \in ks : \A j \in ks : j <= k)

\* Mutant: the depth is decremented without the floor.
DepthAfterGt_NoFloor(d) == d - 1

\* depth = max(0, depth - 1)
DepthAfterGt(d) == IF d - 1 > 0 THEN d - 1 ELSE 0

\* Mutant: every segment is kept.
KeepPart_All(part) == TRUE

\* if part: / if tail:
KeepPart(part) == part # <<>>

\* part = "".join(current).strip(); if part: params.append(part)
AppendPart(ps, cur) ==
    IF KeepPart(StripChars(cur)) THEN Append(ps, StripChars(cur)) ELSE ps

SplitInit ==
    /\ param_block \in ParamBlocks
    /\ sp_i = 0 /\ depth = 0 /\ current = <<>> /\ params = <<>>
    /\ sp_returned = FALSE
    /\ PipelineIdle /\ SumIdle /\ ExtractIdle /\ AttrIdle /\ ParamIdle

\* if not param_block: return params
SplitEmpty ==
    /\ ~sp_returned /\ param_block = <<>>
    /\ sp_returned' = TRUE
    /\ UNCHANGED <<param_block, sp_i, depth, current, params, nonSplitVars>>

SplitLooping(ch) ==
    /\ ~sp_returned /\ sp_i < Len(param_block)
    /\ param_block[sp_i + 1] = ch

\* if ch == "<": depth += 1; current.append(ch)
SplitLt ==
    /\ SplitLooping("<")
    /\ depth' = depth + 1
    /\ current' = Append(current, "<")
    /\ sp_i' = sp_i + 1
    /\ UNCHANGED <<param_block, params, sp_returned, nonSplitVars>>

\* elif ch == ">": depth = max(0, depth - 1); current.append(ch)
SplitGt ==
    /\ SplitLooping(">")
    /\ depth' = DepthAfterGt(depth)
    /\ current' = Append(current, ">")
    /\ sp_i' = sp_i + 1
    /\ UNCHANGED <<param_block, params, sp_returned, nonSplitVars>>

\* elif ch == "," and depth == 0: ...; current = []
SplitComma ==
    /\ SplitLooping(",") /\ depth = 0
    /\ params' = AppendPart(params, current)
    /\ current' = <<>>
    /\ sp_i' = sp_i + 1
    /\ UNCHANGED <<param_block, depth, sp_returned, nonSplitVars>>

\* else: current.append(ch)
SplitOther ==
    /\ \E ch \in Range(param_block) :
          /\ SplitLooping(ch)
          /\ ch \notin {"<", ">"} /\ ~(ch = "," /\ depth = 0)
          /\ current' = Append(current, ch)
    /\ sp_i' = sp_i + 1
    /\ UNCHANGED <<param_block, depth, params, sp_returned, nonSplitVars>>

\* tail = "".join(current).strip(); if tail: params.append(tail); return
SplitTail ==
    /\ ~sp_returned /\ param_block # <<>> /\ sp_i = Len(param_block)
    /\ params' = AppendPart(params, current)
    /\ sp_returned' = TRUE
    /\ UNCHANGED <<param_block, sp_i, depth, current, nonSplitVars>>

SplitNext ==
    SplitEmpty \/ SplitLt \/ SplitGt \/ SplitComma \/ SplitOther \/ SplitTail

SplitSpec == SplitInit /\ [][SplitNext]_vars

\* The nesting depth after the first k characters of param_block: one up on
\* each "<", one down on each ">" but never below zero.
RECURSIVE NestDepth(_)
NestDepth(k) ==
    IF k = 0 THEN 0
    ELSE LET d == NestDepth(k - 1)
         IN CASE param_block[k] = "<" -> d + 1
              [] param_block[k] = ">" -> IF d > 0 THEN d - 1 ELSE 0
              [] OTHER -> d

\* The positions of the commas that stand at nesting depth zero.
TopCommas ==
    {k \in DOMAIN param_block :
        param_block[k] = "," /\ NestDepth(k - 1) = 0}

\* The pieces of param_block between the depth-zero commas, from position
\* start on, in order.
RECURSIVE SegmentsFrom(_)
SegmentsFrom(start) ==
    LET next == {k \in TopCommas : k >= start}
    IN IF next = {} THEN <<SubSeq(param_block, start, Len(param_block))>>
       ELSE LET c == CHOOSE k \in next : \A j \in next : k <= j
            IN <<SubSeq(param_block, start, c - 1)>> \o SegmentsFrom(c + 1)

TrimmedSegments ==
    [k \in DOMAIN SegmentsFrom(1) |-> StripChars(SegmentsFrom(1)[k])]

\* C16: split_params tracks the nesting depth (up on "<", down to no less
\* than zero on ">") and cuts param_block at the commas of depth zero and
\* at no other comma: the result is the trimmed non-empty pieces between
\* those commas, and "Map<K, V> a, int b" gives "Map<K, V> a" and "int b".
C16_SplitsAtDepthZeroOnly ==
    /\ depth = NestDepth(sp_i)
    /\ sp_returned =>
          params = SelectSeq(TrimmedSegments, LAMBDA seg : seg # <<>>)
    /\ (sp_returned /\ param_block = ParamExample) =>
          params = <<SubSeq(ParamExample, 1, 11), SubSeq(ParamExample, 14, 18)>>

\* C16 witness: the example has been split, and so has a text with an
\* unmatched ">" before a comma.
C16_Witness ==
    /\ sp_returned
    /\ \/ param_block = ParamExample /\ Len(params) = 2
       \/ param_block = <<"a", ">", ",", "a">> /\ Len(params) = 2

\* A text without its blanks.
Squeeze(s) == SelectSeq(s, LAMBDA ch : ch # " ")

\* C17: no returned element is empty or starts or ends with a blank; the
\* empty text gives the empty sequence; there is one element per piece that
\* is not blank, and the elements follow each other as in the text.
C17_NoEmptyElement ==
    sp_returned =>
       /\ \A k \in DOMAIN params :
             /\ params[k] # <<>>
             /\ params[k][1] # " " /\ params[k][Len(params[k])] # " "
       /\ param_block = <<>> => params = <<>>
       /\ Len(params)
             = Cardinality({k \in DOMAIN SegmentsFrom(1) :
                               Squeeze(SegmentsFrom(1)[k]) # <<>>})
       /\ Squeeze(Flatten(params))
             = Squeeze([k \in 1..Len(param_block) |->
                           IF k \in TopCommas THEN " " ELSE param_block[k]])

\* C17 witness: a text with a leading and a doubled comma.
C17_Witness ==
    /\ sp_returned
    /\ param_block = <<",", "a", ",", ",", "a">>
    /\ params = << <<"a">>, <<"a">> >>

(***************************************************************************)
(* AttrSpec: collect_leading_attributes (dotnet) and                       *)
(* collect_leading_annotations (maven), one loop iteration per step, over  *)
(* a sanitized text and a declaration offset.  Offsets are the 0-based     *)
(* ones of the source: code[k] is a_code[k + 1].                           *)
(***************************************************************************)
MaxCodeLen == 5

\* line.startswith("[") / seg.startswith("@")
Marker(t) == IF t = "dotnet" THEN "[" ELSE "@"

AttrChars(t) == {NL, " ", Marker(t), "x"}

\* code.rfind("\n", 0, hi): the greatest offset below hi holding a newline
Rfind(s, hi) ==
    LET ks == {k \in 0..(hi - 1) : k < Len(s) /\ s[k + 1] = NL}
    IN IF ks = {} THEN 0 - 1 ELSE CHOOSE k \in ks : \A j \in ks : j <= k

\* code[a:b]
Slice(s, a, b) == SubSeq(s, a + 1, IF b < Len(s) THEN b ELSE Len(s))

\* str.strip(): blanks and newlines
StripWs(s) ==
    LET ks == {k \in DOMAIN s : s[k] \notin {" ", NL}}
    IN IF ks = {} THEN <<>>
       ELSE SubSeq(s, CHOOSE k \in ks : \A j \in ks : k <= j,
                      CHOOSE k \in ks : \A j \in ks : j <= k)

\* Mutant: the collected lines are returned in collection order.
Reversed_Not(s) == s

\* attrs.reverse()
Reversed(s) == [k \in DOMAIN s |-> s[Len(s) + 1 - k]]

\* dotnet 264-269: prev_nl, line_start and line of one iteration
AttrsLine(i) ==
    LET prev_nl == Rfind(a_code, i)
        found == Rfind(a_code, prev_nl)
        line_start == IF found = 0 - 1 THEN 0 ELSE found + 1
    IN [prev_nl |-> prev_nl, line_start |-> line_start,
        line |-> StripWs(Slice(a_code, line_start, prev_nl))]

\* maven 229-231: prev_newline and seg of one iteration
AnnosSeg(i) ==
    LET prev_newline == Rfind(a_code, i)
        seg_start == IF prev_newline < 0 THEN 0 ELSE prev_newline + 1
    IN [prev_newline |-> prev_newline,
        seg |-> StripWs(Slice(a_code, seg_start, i + 1))]

AttrInit ==
    /\ a_tool \in {"dotnet", "maven"}
    /\ a_code \in SeqsUpTo(AttrChars(a_tool), MaxCodeLen)
    /\ start_idx \in 0..Len(a_code)
    /\ a_i = IF a_tool = "dotnet" THEN start_idx
             ELSE (Rfind(a_code, start_idx) + 1) - 2
    /\ attrs = <<>> /\ a_returned = FALSE
    /\ PipelineIdle /\ SumIdle /\ ExtractIdle /\ SplitIdle /\ ParamIdle

AttrsLooping ==
    a_tool = "dotnet" /\ ~a_returned /\ AttrsLine(a_i).prev_nl # 0 - 1

\* if not line: i = line_start; continue
AttrsBlank ==
    /\ AttrsLooping
    /\ AttrsLine(a_i).line = <<>>
    /\ a_i' = AttrsLine(a_i).line_start
    /\ UNCHANGED <<a_tool, a_code, start_idx, attrs, a_returned, nonAttrVars>>

\* if line.startswith("["): attrs.append(line); i = line_start; continue
AttrsCollect ==
    /\ AttrsLooping
    /\ AttrsLine(a_i).line # <<>>
    /\ AttrsLine(a_i).line[1] = "["
    /\ attrs' = Append(attrs, AttrsLine(a_i).line)
    /\ a_i' = AttrsLine(a_i).line_start
    /\ UNCHANGED <<a_tool, a_code, start_idx, a_returned, nonAttrVars>>

\* break (no newline before i, or a line that is neither blank nor "[...");
\* attrs.reverse(); return attrs
AttrsReturn ==
    /\ a_tool = "dotnet" /\ ~a_returned
    /\ \/ AttrsLine(a_i).prev_nl = 0 - 1
       \/ /\ AttrsLine(a_i).line # <<>>
          /\ AttrsLine(a_i).line[1] # "["
    /\ attrs' = Reversed(attrs)
    /\ a_returned' = TRUE
    /\ UNCHANGED <<a_tool, a_code, start_idx, a_i, nonAttrVars>>

AnnosLooping == a_tool = "maven" /\ ~a_returned /\ a_i >= 0

\* if not seg: i = prev_newline - 1; continue
AnnosBlank ==
    /\ AnnosLooping
    /\ AnnosSeg(a_i).seg = <<>>
    /\ a_i' = AnnosSeg(a_i).prev_newline - 1
    /\ UNCHANGED <<a_tool, a_code, start_idx, attrs, a_returned, nonAttrVars>>

\* if seg.startswith("@"): annotations.append(seg); i = prev_newline - 1
AnnosCollect ==
    /\ AnnosLooping
    /\ AnnosSeg(a_i).seg # <<>>
    /\ AnnosSeg(a_i).seg[1] = "@"
    /\ attrs' = Append(attrs, AnnosSeg(a_i).seg)
    /\ a_i' = AnnosSeg(a_i).prev_newline - 1
    /\ UNCHANGED <<a_tool, a_code, start_idx, a_returned, nonAttrVars>>

\* while i >= 0 ends, or break; annotations.reverse(); return annotations
AnnosReturn ==
    /\ a_tool = "maven" /\ ~a_returned
    /\ \/ a_i < 0
       \/ /\ AnnosSeg(a_i).seg # <<>>
          /\ AnnosSeg(a_i).seg[1] # "@"
    /\ attrs' = Reversed(attrs)
    /\ a_returned' = TRUE
    /\ UNCHANGED <<a_tool, a_code, start_idx, a_i, nonAttrVars>>

AttrNext ==
    \/ AttrsBlank \/ AttrsCollect \/ AttrsReturn
    \/ AnnosBlank \/ AnnosCollect \/ AnnosReturn

AttrSpec == AttrInit /\ [][AttrNext]_vars

\* Each call runs on: the loop is not abandoned halfway.
AttrFairSpec == AttrSpec /\ WF_vars(AttrNext)

\* The offsets (1-based positions) of the newlines of the text.
NewlinePositions == {k \in DOMAIN a_code : a_code[k] = NL}

\* The position of the n-th newline, n >= 1.
NthNewline(n) ==
    CHOOSE p \in NewlinePositions :
       Cardinality({q \in NewlinePositions : q < p}) = n - 1

\* Line number n of the text (the first line is number 0), trimmed.
TrimmedLine(n) ==
    LET from == IF n = 0 THEN 1 ELSE NthNewline(n) + 1
        to == IF n = Cardinality(NewlinePositions) THEN Len(a_code)
              ELSE NthNewline(n + 1) - 1
    IN StripWs(SubSeq(a_code, from, to))

\* The number of the line the declaration offset lies on.
DeclarationLine == Cardinality({k \in NewlinePositions : k <= start_idx})

\* The marker lines met walking upward from line n: blank lines skipped,
\* the walk ended by the first other line; listed top to bottom.
RECURSIVE MarkersAbove(_)
MarkersAbove(n) ==
    IF n < 0 THEN <<>>
    ELSE IF TrimmedLine(n) = <<>> THEN MarkersAbove(n - 1)
    ELSE IF TrimmedLine(n)[1] = Marker(a_tool)
    THEN Append(MarkersAbove(n - 1), TrimmedLine(n))
    ELSE <<>>

\* C18: from any declaration offset the walk ends, and it returns exactly
\* the marker lines above the declaration's line (blank lines skipped, the
\* first other line or the start of the text ending the walk), top to bottom.
C18_LeadingMarkersCollected ==
    /\ <>a_returned
    /\ [](a_returned => attrs = MarkersAbove(DeclarationLine - 1))

\* C18 witness: two marker lines with a blank line between them returned.
C18_Witness ==
    /\ a_returned /\ start_idx = 5
    /\ a_code = <<Marker(a_tool), NL, NL, Marker(a_tool), NL>>
    /\ Len(attrs) = 2

(***************************************************************************)
(* ParamSpec: parse_param of the Maven inspector over one parameter text.  *)
(* Strings are sequences of characters; the returned dict is a record      *)
(* whose field keys is the set of keys the dict holds.                     *)
(***************************************************************************)
MaxWords == 4

W_anno == <<"@", "A">>
W_anno_args == <<"@", "A", "(", "x", ")">>
W_final == <<"f", "i", "n", "a", "l">>
W_int == <<"i", "n", "t">>
W_i == <<"i">>
W_in == <<"i", "n">>
W_x == <<"x">>
W_varargs == <<"T", ".", ".", ".">>

ParamWords ==
    {W_anno, W_anno_args, W_final, W_int, W_i, W_in, W_x, W_varargs}

\* " ".join(tokens)
RECURSIVE JoinWs(_)
JoinWs(tokens) ==
    IF tokens = <<>> THEN <<>>
    ELSE IF Len(tokens) = 1 THEN tokens[1]
    ELSE tokens[1] \o <<" ">> \o JoinWs(Tail(tokens))

\* the parameter texts: words joined by blanks, bare or with outer blanks
ParamTexts ==
    UNION {{JoinWs(ws), <<" ">> \o JoinWs(ws) \o <<" ">>} :
           ws \in SeqsUpTo(ParamWords, MaxWords)}

\* \w of the regular expression, over the characters of the model
WordChars == {"A", "T", "f", "i", "n", "a", "l", "t", "x"}

\* last offset of the run of \w characters that starts at k (k - 1 if none)
RECURSIVE WordRunEnd(_, _)
WordRunEnd(s, k) ==
    IF k <= Len(s) /\ s[k] \in WordChars THEN WordRunEnd(s, k + 1)
    ELSE k - 1

\* @\w+(?:\([^\)]*\))? matched at k: the last offset of the match, 0 if the
\* expression does not match there
AnnoMatchEnd(s, k) ==
    IF k > Len(s) \/ s[k] # "@" \/ WordRunEnd(s, k + 1) = k THEN 0
    ELSE LET e == WordRunEnd(s, k + 1)
             closes == {j \in (e + 2)..Len(s) : s[j] = ")"}
         IN IF e + 1 <= Len(s) /\ s[e + 1] = "(" /\ closes # {}
            THEN CHOOSE j \in closes : \A h \in closes : j <= h
            ELSE e

\* re.findall(r"@\w+(?:\([^\)]*\))?", p), scanning from k
RECURSIVE FindAnnos(_, _)
FindAnnos(s, k) ==
    IF k > Len(s) THEN <<>>
    ELSE IF AnnoMatchEnd(s, k) # 0
    THEN <<SubSeq(s, k, AnnoMatchEnd(s, k))>>
         \o FindAnnos(s, AnnoMatchEnd(s, k) + 1)
    ELSE FindAnnos(s, k + 1)

\* re.sub(r"@\w+(?:\([^\)]*\))?", " ", p), scanning from k
RECURSIVE SubAnnos(_, _)
SubAnnos(s, k) ==
    IF k > Len(s) THEN <<>>
    ELSE IF AnnoMatchEnd(s, k) # 0
    THEN <<" ">> \o SubAnnos(s, AnnoMatchEnd(s, k) + 1)
    ELSE <<s[k]>> \o SubAnnos(s, k + 1)

\* str.split() from offset k, cur being the token read so far
RECURSIVE SplitFrom(_, _, _)
SplitFrom(s, k, cur) ==
    IF k > Len(s) THEN (IF cur = <<>> THEN <<>> ELSE <<cur>>)
    ELSE IF s[k] = " "
    THEN (IF cur = <<>> THEN <<>> ELSE <<cur>>) \o SplitFrom(s, k + 1, <<>>)
    ELSE SplitFrom(s, k + 1, Append(cur, s[k]))

SplitWs(s) == SplitFrom(s, 1, <<>>)

\* t in s for two str values: t occurs in s as a substring
InStr(t, s) ==
    \E k \in 0..(Len(s) - Len(t)) : SubSeq(s, k + 1, k + Len(t)) = t

\* ("final") is the str "final", so "t not in" is a substring test
NotModifier(t) == ~InStr(t, W_final)

\* tokens = [t for t in tokens if t not in ("final")]
ParamTokens(p) ==
    SelectSeq(SplitWs(StripChars(SubAnnos(StripChars(p), 1))), NotModifier)

\* t.endswith("...")
EndsWithDots(t) ==
    Len(t) >= 3 /\ SubSeq(t, Len(t) - 2, Len(t)) = <<".", ".", ".">>

\* t = " ".join(type_tokens); if t.endswith("..."): t = t[:-3].strip() + "[]"
ParamType(type_tokens) ==
    LET t == JoinWs(type_tokens)
    IN IF EndsWithDots(t)
       THEN StripChars(SubSeq(t, 1, Len(t) - 3)) \o <<"[", "]">>
       ELSE t

parse_param(p) ==
    LET s == StripChars(p)
        tokens == ParamTokens(p)
        type_tokens == SubSeq(tokens, 1, Len(tokens) - 1)
    IN IF s = <<>> THEN EmptyDict
       ELSE IF tokens = <<>>
       THEN [EmptyDict EXCEPT !.keys = {"raw"}, !.raw = s]
       ELSE IF type_tokens = <<>>
       THEN [EmptyDict EXCEPT !.keys = {"raw", "name"}, !.raw = s,
                              !.name = tokens[Len(tokens)]]
       ELSE [keys |-> {"type", "name", "varargs", "annotations", "raw"},
             type |-> ParamType(type_tokens),
             name |-> tokens[Len(tokens)],
             varargs |-> EndsWithDots(JoinWs(type_tokens)),
             annotations |-> FindAnnos(s, 1),
             raw |-> s]

ParamInit ==
    /\ param_text \in ParamTexts
    /\ param_result = EmptyDict /\ param_returned = FALSE
    /\ PipelineIdle /\ SumIdle /\ ExtractIdle /\ SplitIdle /\ AttrIdle

ParamReturn ==
    /\ param_result' = parse_param(param_text)
    /\ param_returned' = TRUE
    /\ UNCHANGED <<param_text, nonParamVars>>

\* if not p: return {}
ParamEmpty ==
    /\ ~param_returned /\ StripChars(param_text) = <<>>
    /\ ParamReturn

\* if not tokens: return {"raw": p}
ParamNoTokens ==
    /\ ~param_returned /\ StripChars(param_text) # <<>>
    /\ ParamTokens(param_text) = <<>>
    /\ ParamReturn

\* if not type_tokens: return {"raw": p, "name": name}
ParamNameOnly ==
    /\ ~param_returned /\ Len(ParamTokens(param_text)) = 1
    /\ ParamReturn

\* return {"type": t, "name": name, "varargs": ..., "annotations": ..., "raw": p}
ParamTyped ==
    /\ ~param_returned /\ Len(ParamTokens(param_text)) >= 2
    /\ ParamReturn

ParamNext == ParamEmpty \/ ParamNoTokens \/ ParamNameOnly \/ ParamTyped

ParamSpec == ParamInit /\ [][ParamNext]_vars

IsAnnotationToken(t) == t # <<>> /\ t[1] = "@"

IsIdentifier(t) ==
    t # <<>> /\ t # W_final /\ \A k \in DOMAIN t : t[k] \in WordChars

\* the text reads [annotations] [final] Type name: annotation tokens, then
\* at most one final, then one type token and one identifier
IsJavaParameter(toks) ==
    LET n == Len(toks)
    IN /\ n >= 2
       /\ IsIdentifier(toks[n])
       /\ IsIdentifier(toks[n - 1])
       /\ \E a \in 0..(n - 2) :
            /\ \A k \in 1..a : IsAnnotationToken(toks[k])
            /\ a = n - 2 \/ (a = n - 3 /\ toks[n - 2] = W_final)

\* C21: for a parameter text of the form [annotations] [final] Type name,
\* whatever identifier the name is, parse_param returns name = the last
\* token, type = the token before it and raw = the stripped text, and the
\* returned dict holds a type.
C21_OnlyFinalRemoved ==
    LET toks == SplitWs(param_text)
    IN (param_returned /\ IsJavaParameter(toks)) =>
        /\ "type" \in param_result.keys
        /\ param_result.name = toks[Len(toks)]
        /\ param_result.type = toks[Len(toks) - 1]
        /\ param_result.raw = StripChars(param_text)

(***************************************************************************)
(* The two strippers side by side (SanSpec).                               *)
(***************************************************************************)
\* the text holds the C# verbatim-string prefix @" somewhere
HasVerbatimPrefix(text) ==
    \E k \in 1..(Len(text) - 1) : text[k] = "@" /\ text[k + 1] = DQ

\* the locals the two loops share have the same values
SameLocals ==
    /\ cs.i = java.i
    /\ cs.result = java.result
    /\ cs.in_sl_comment = java.in_sl_comment
    /\ cs.in_ml_comment = java.in_ml_comment
    /\ cs.in_str = java.in_str
    /\ cs.in_char = java.in_char
    /\ ~cs.in_verbatim_str

\* both have taken the same number of steps: the C# stripper steps first, so
\* the Java stripper has caught up when it is not behind and the C# one has
\* not returned ahead of it
SameSteps == cs.returned = java.returned /\ ~(java.i < cs.i)

\* C22: on a text without the two-character sequence @", the C# and the
\* Java stripper, stepped side by side, have the same locals and have emitted
\* the same characters after every step, and they return the same output.
C22_StrippersAgree ==
    ~HasVerbatimPrefix(code) =>
        /\ SameSteps => SameLocals
        /\ ~SameSteps =>
             /\ cs.i - java.i \in 0..2
             /\ java.result = SubSeq(cs.result, 1, Len(java.result))
        /\ (cs.returned /\ java.returned) => cs.result = java.result

\* both have returned on a full-length text that holds an @ but no @", and
\* part of the text was blanked
C22_Witness ==
    /\ cs.returned /\ java.returned
    /\ ~HasVerbatimPrefix(code) /\ Len(code) = MaxLen
    /\ \E k \in DOMAIN code : code[k] = "@"
    /\ \E k \in DOMAIN code : code[k] = "a" /\ java.result[k] = " "
    /\ cs.result = java.result

====
